---- MODULE Spec2Model ----
(***************************************************************************)
(* Model of the hardened SQL query builder of scape-labs/query             *)
(* (src/query.go, lines 658-1247).                                         *)
(*                                                                         *)
(* A Go string is modelled as the sequence of its characters (one-letter   *)
(* TLA+ strings), so that the sanitizers work on substrings as the code    *)
(* does.  The strings.Builder of a renderer is modelled as the sequence of *)
(* fragments written to it; every fragment carries the clause (c) and the  *)
(* part (k) that wrote it, next to its text (s).  Text(q) is the string    *)
(* query.String() returns.  Bound values are opaque: integers.             *)
(***************************************************************************)
EXTENDS Integers, Sequences, FiniteSets, TLC

VARIABLES
    b,       \* the QueryBuilder record
    ret,     \* what the last call returned: the builder itself, or a Query
    builds,  \* how many Build calls were made since the last declaration
    calls    \* the declaration calls of concurrent callers, each with its
             \* position; empty when one caller makes every call in turn

vars == <<b, ret, builds, calls>>

\* the largest number of declared items a record of the model holds
MaxSize == 2
\* the largest number of consecutive Build calls
MaxBuilds == 2
\* the largest number of predicates and of SET pairs (SpecWhere)
MaxWhere == 3
MaxSet == 2
\* the largest number of joins and of predicates of a Select (SpecSelect)
MaxJoins == 1
MaxSelWhere == 1
\* the largest number of predicates of SpecStyle
MaxStyleWhere == 2

----------------------------------------------------------------------------
(* Program constants: ParameterStyle and QueryType (iota).                 *)

QuestionMark == 0
DollarNumber == 1

SelectQuery == 0
InsertQuery == 1
UpdateQuery == 2
DeleteQuery == 3

----------------------------------------------------------------------------
(* Strings.                                                                *)

UpperChars == <<"A","B","C","D","E","F","G","H","I","J","K","L","M",
                "N","O","P","Q","R","S","T","U","V","W","X","Y","Z">>
LowerChars == <<"a","b","c","d","e","f","g","h","i","j","k","l","m",
                "n","o","p","q","r","s","t","u","v","w","x","y","z">>
DigitChars == <<"0","1","2","3","4","5","6","7","8","9">>

ToLowerChar(c) ==
    IF \E i \in 1..26 : UpperChars[i] = c
    THEN LowerChars[CHOOSE i \in 1..26 : UpperChars[i] = c]
    ELSE c

\* strings.ToLower (ASCII)
ToLower(s) == [i \in 1..Len(s) |-> ToLowerChar(s[i])]

\* strings.HasPrefix
HasPrefix(s, p) == Len(p) <= Len(s) /\ SubSeq(s, 1, Len(p)) = p

\* strings.Contains
Contains(s, sub) ==
    \E i \in 0..(Len(s) - Len(sub)) : SubSeq(s, i + 1, i + Len(sub)) = sub

RECURSIVE Flat(_)
Flat(ss) == IF ss = <<>> THEN <<>> ELSE Head(ss) \o Flat(Tail(ss))

\* the double quotes left single
DoubleQuotesSingle(s) == s

\* strings.ReplaceAll(s, `"`, `""`)
DoubleQuotes(s) ==
    Flat([i \in 1..Len(s) |-> IF s[i] = "\"" THEN <<"\"", "\"">> ELSE <<s[i]>>])

\* fmt.Sprintf("%d", n)
RECURSIVE Digits(_)
Digits(n) ==
    IF n < 10 THEN <<DigitChars[n + 1]>>
    ELSE Digits(n \div 10) \o <<DigitChars[(n % 10) + 1]>>

Itoa(n) == IF n < 0 THEN <<"-">> \o Digits(0 - n) ELSE Digits(n)

----------------------------------------------------------------------------
(* Identifier safety layer.                                                *)

kw_drop     == <<"d","r","o","p">>
kw_delete   == <<"d","e","l","e","t","e">>
kw_insert   == <<"i","n","s","e","r","t">>
kw_update   == <<"u","p","d","a","t","e">>
kw_create   == <<"c","r","e","a","t","e">>
kw_alter    == <<"a","l","t","e","r">>
kw_truncate == <<"t","r","u","n","c","a","t","e">>
kw_exec     == <<"e","x","e","c">>
kw_execute  == <<"e","x","e","c","u","t","e">>

\* the alternation of the regular expression, in its order
reKeywords == <<kw_drop, kw_delete, kw_insert, kw_update, kw_create,
                kw_alter, kw_truncate, kw_exec, kw_execute>>

\* the same pass matching the keywords in lower case only
RECURSIVE escapeIdentifierCaseSensitive(_)
escapeIdentifierCaseSensitive(identifier) ==
    IF identifier = <<>> THEN <<>>
    ELSE LET m == {k \in 1..Len(reKeywords) : HasPrefix(identifier, reKeywords[k])}
         IN  IF m = {}
             THEN <<Head(identifier)>> \o escapeIdentifierCaseSensitive(Tail(identifier))
             ELSE LET k == CHOOSE x \in m : \A y \in m : x <= y
                  IN  escapeIdentifierCaseSensitive(
                        SubSeq(identifier, Len(reKeywords[k]) + 1, Len(identifier)))

\* regexp.ReplaceAllString(identifier, ""): one left-to-right pass; at each
\* position the first alternative that matches (case-insensitively) is
\* removed and the scan resumes after it; removed text is never rescanned.
RECURSIVE escapeIdentifier(_)
escapeIdentifier(identifier) ==
    IF identifier = <<>> THEN <<>>
    ELSE LET low == ToLower(identifier)
             m   == {k \in 1..Len(reKeywords) : HasPrefix(low, reKeywords[k])}
         IN  IF m = {}
             THEN <<Head(identifier)>> \o escapeIdentifier(Tail(identifier))
             ELSE LET k == CHOOSE x \in m : \A y \in m : x <= y
                  IN  escapeIdentifier(
                        SubSeq(identifier, Len(reKeywords[k]) + 1, Len(identifier)))

\* the characters the regexp [^a-zA-Z0-9_.*] leaves in place
SimpleChars ==
    {UpperChars[j] : j \in DOMAIN UpperChars} \cup
    {LowerChars[j] : j \in DOMAIN LowerChars} \cup
    {DigitChars[j] : j \in DOMAIN DigitChars} \cup {"_", ".", "*"}

\* strings.ReplaceAll(s, old, ""): case-sensitive, left to right
RECURSIVE RemoveAll(_, _)
RemoveAll(s, old) ==
    IF s = <<>> THEN <<>>
    ELSE IF HasPrefix(s, old) THEN RemoveAll(SubSeq(s, Len(old) + 1, Len(s)), old)
    ELSE <<Head(s)>> \o RemoveAll(Tail(s), old)

\* the loop over the blacklist from keyword i on; lower is computed once,
\* before the loop
RECURSIVE removeBlacklist(_, _, _)
removeBlacklist(cleaned, lower, i) ==
    IF i > Len(reKeywords) THEN cleaned
    ELSE removeBlacklist(
            IF Contains(lower, reKeywords[i]) THEN RemoveAll(cleaned, reKeywords[i])
            ELSE cleaned,
            lower, i + 1)

escapeSimpleIdentifier(identifier) ==
    LET cleaned == SelectSeq(identifier, LAMBDA c : c \in SimpleChars)
    IN  removeBlacklist(cleaned, ToLower(cleaned), 1)

dangerousPatterns ==
    << <<"'",";">>, <<"\"",";">>, <<"-","-">>, <<"/","*">>, <<"*","/">>,
       kw_drop, kw_delete, kw_insert, kw_update, kw_create, kw_alter,
       kw_truncate, kw_exec, kw_execute,
       <<"u","n","i","o","n">>, <<"s","e","l","e","c","t">>,
       <<"i","n","t","o">>, <<"f","r","o","m">>, <<"w","h","e","r","e">>,
       <<"j","o","i","n">> >>

isValidIdentifier(identifier) ==
    /\ identifier # <<>>
    /\ \A i \in 1..Len(dangerousPatterns) :
          ~Contains(ToLower(identifier), dangerousPatterns[i])

\* the builder before the hardening: identifiers are written as given
safeIdentifierPlain(identifier) == identifier

\* every identifier quoted, the accepted ones too
safeIdentifierQuoting(identifier) ==
    <<"\"">> \o DoubleQuotes(escapeIdentifier(identifier)) \o <<"\"">>

\* the rejected identifiers quoted with their keywords left in
safeIdentifierUnstripped(identifier) ==
    IF /\ isValidIdentifier(identifier)
       /\ ~Contains(identifier, <<"\"">>)
       /\ ~Contains(identifier, <<"'">>)
    THEN identifier
    ELSE <<"\"">> \o DoubleQuotes(identifier) \o <<"\"">>

safeIdentifier(identifier) ==
    IF /\ isValidIdentifier(identifier)
       /\ ~Contains(identifier, <<"\"">>)
       /\ ~Contains(identifier, <<"'">>)
    THEN identifier
    ELSE <<"\"">> \o DoubleQuotes(escapeIdentifier(identifier)) \o <<"\"">>

----------------------------------------------------------------------------
(* The builder record and the declaration calls.                           *)

\* a declaration call returns the builder itself
Self == [builder |-> TRUE]

\* a Build call returns a Query
IsQuery(x) == DOMAIN x = {"SQL", "Params"}

\* a constructor that starts in QuestionMark style
NewQueryBuilderQuestionMark ==
    [ queryType     |-> SelectQuery,
      table         |-> <<>>,
      tableAlias    |-> <<>>,
      columns       |-> << <<"*">> >>,
      whereClauses  |-> <<>>,
      joinClauses   |-> <<>>,
      order         |-> <<>>,
      limit         |-> 0,
      offset        |-> 0,
      paramStyle    |-> QuestionMark,
      insertColumns |-> <<>>,
      insertValues  |-> <<>>,
      updateColumns |-> <<>>,
      updateValues  |-> <<>> ]

NewQueryBuilder ==
    [ queryType     |-> SelectQuery,
      table         |-> <<>>,
      tableAlias    |-> <<>>,
      columns       |-> << <<"*">> >>,
      whereClauses  |-> <<>>,
      joinClauses   |-> <<>>,
      order         |-> <<>>,
      limit         |-> 0,
      offset        |-> 0,
      paramStyle    |-> DollarNumber,
      insertColumns |-> <<>>,
      insertValues  |-> <<>>,
      updateColumns |-> <<>>,
      updateValues  |-> <<>> ]

Init == b = NewQueryBuilder /\ ret = Self /\ builds = 0 /\ calls = <<>>

\* number of declared items the record holds (the model's measure of a record)
Size(r) ==
      (IF r.table = <<>> THEN 0 ELSE 1)
    + (IF r.tableAlias = <<>> THEN 0 ELSE 1)
    + (IF r.columns = NewQueryBuilder.columns THEN 0 ELSE 1)
    + (IF r.order = <<>> THEN 0 ELSE 1)
    + (IF r.limit = 0 THEN 0 ELSE 1)
    + (IF r.offset = 0 THEN 0 ELSE 1)
    + (IF r.paramStyle = DollarNumber THEN 0 ELSE 1)
    + (IF r.insertColumns = <<>> THEN 0 ELSE 1)
    + (IF r.insertValues = <<>> THEN 0 ELSE 1)
    + Len(r.whereClauses) + Len(r.joinClauses) + Len(r.updateColumns)

Fits(r) == Size(r) <= MaxSize

ParameterPlaceholder(style) ==
    /\ b' = [b EXCEPT !.paramStyle = style]
    /\ ret' = Self
    /\ builds' = 0
    /\ UNCHANGED calls

Table(table) ==
    /\ b' = [b EXCEPT !.table = table]
    /\ ret' = Self
    /\ builds' = 0
    /\ UNCHANGED calls

\* a Select that takes its arguments as the columns even when there are none
SelectReplacing(cols) ==
    /\ b' = [b EXCEPT !.queryType = SelectQuery, !.columns = cols]
    /\ ret' = Self
    /\ builds' = 0
    /\ UNCHANGED calls

Select(cols) ==
    /\ b' = [b EXCEPT !.queryType = SelectQuery,
                      !.columns = IF Len(cols) > 0 THEN cols ELSE @]
    /\ ret' = Self
    /\ builds' = 0
    /\ UNCHANGED calls

\* all orders in which `range data` may yield the keys of the map
IterationOrders(data) ==
    {o \in [1..Cardinality(DOMAIN data) -> DOMAIN data] :
        \A i, j \in DOMAIN o : i # j => o[i] # o[j]}

\* an Insert that takes the values in an iteration of their own
InsertUnpaired(data) ==
    /\ \E o \in IterationOrders(data) :
          LET f == CHOOSE p \in IterationOrders(data) : TRUE IN
          b' = [b EXCEPT !.queryType = InsertQuery,
                         !.insertColumns = o,
                         !.insertValues = [i \in DOMAIN o |-> data[f[i]]]]
    /\ ret' = Self
    /\ builds' = 0
    /\ UNCHANGED calls

Insert(data) ==
    /\ \E o \in IterationOrders(data) :
          b' = [b EXCEPT !.queryType = InsertQuery,
                         !.insertColumns = o,
                         !.insertValues = [i \in DOMAIN o |-> data[o[i]]]]
    /\ ret' = Self
    /\ builds' = 0
    /\ UNCHANGED calls

InsertColumns(cols) ==
    /\ b' = [b EXCEPT !.queryType = InsertQuery, !.insertColumns = cols]
    /\ ret' = Self
    /\ builds' = 0
    /\ UNCHANGED calls

\* a Values that also declares the statement an Insert
ValuesSettingKind(values) ==
    /\ b' = [b EXCEPT !.queryType = InsertQuery, !.insertValues = values]
    /\ ret' = Self
    /\ builds' = 0
    /\ UNCHANGED calls

Values(values) ==
    /\ b' = [b EXCEPT !.insertValues = values]
    /\ ret' = Self
    /\ builds' = 0
    /\ UNCHANGED calls

\* an Update that adds its pairs after the ones already declared
UpdateAppending(data) ==
    /\ \E o \in IterationOrders(data) :
          b' = [b EXCEPT !.queryType = UpdateQuery,
                         !.updateColumns = @ \o o,
                         !.updateValues = @ \o [i \in DOMAIN o |-> data[o[i]]]]
    /\ ret' = Self
    /\ builds' = 0
    /\ UNCHANGED calls

Update(data) ==
    /\ \E o \in IterationOrders(data) :
          b' = [b EXCEPT !.queryType = UpdateQuery,
                         !.updateColumns = o,
                         !.updateValues = [i \in DOMAIN o |-> data[o[i]]]]
    /\ ret' = Self
    /\ builds' = 0
    /\ UNCHANGED calls

Set(column, value) ==
    /\ b' = [b EXCEPT !.queryType = UpdateQuery,
                      !.updateColumns = Append(@, column),
                      !.updateValues = Append(@, value)]
    /\ ret' = Self
    /\ builds' = 0
    /\ UNCHANGED calls

Delete ==
    /\ b' = [b EXCEPT !.queryType = DeleteQuery]
    /\ ret' = Self
    /\ builds' = 0
    /\ UNCHANGED calls

WhereClause(column, operator, value, joinType) ==
    [Column |-> column, Operator |-> operator, Value |-> value, JoinType |-> joinType]

s_and == <<"a","n","d">>
s_or  == <<"o","r">>

Where(column, operator, value) ==
    /\ b' = [b EXCEPT !.whereClauses =
                 Append(@, WhereClause(column, operator, value, s_and))]
    /\ ret' = Self
    /\ builds' = 0
    /\ UNCHANGED calls

OrWhere(column, operator, value) ==
    /\ b' = [b EXCEPT !.whereClauses =
                 Append(@, WhereClause(column, operator, value, s_or))]
    /\ ret' = Self
    /\ builds' = 0
    /\ UNCHANGED calls

OrderBy(order) ==
    /\ b' = [b EXCEPT !.order = order]
    /\ ret' = Self
    /\ builds' = 0
    /\ UNCHANGED calls

Limit(limit) ==
    /\ b' = [b EXCEPT !.limit = limit]
    /\ ret' = Self
    /\ builds' = 0
    /\ UNCHANGED calls

Offset(offset) ==
    /\ b' = [b EXCEPT !.offset = offset]
    /\ ret' = Self
    /\ builds' = 0
    /\ UNCHANGED calls

s_JOIN  == <<"J","O","I","N">>
s_LEFT  == <<"L","E","F","T"," ">> \o s_JOIN
s_RIGHT == <<"R","I","G","H","T"," ">> \o s_JOIN
s_INNER == <<"I","N","N","E","R"," ">> \o s_JOIN
s_FULL  == <<"F","U","L","L"," ">> \o s_JOIN

JoinClause(type, table, alias, condition) ==
    [Type |-> type, Table |-> table, Alias |-> alias, Condition |-> condition]

addJoin(type, table, alias, condition) ==
    /\ b' = [b EXCEPT !.joinClauses =
                 Append(@, JoinClause(type, table, alias, condition))]
    /\ ret' = Self
    /\ builds' = 0
    /\ UNCHANGED calls

Join(table, condition)      == addJoin(s_JOIN, table, <<>>, condition)
LeftJoin(table, condition)  == addJoin(s_LEFT, table, <<>>, condition)
RightJoin(table, condition) == addJoin(s_RIGHT, table, <<>>, condition)
InnerJoin(table, condition) == addJoin(s_INNER, table, <<>>, condition)
FullJoin(table, condition)  == addJoin(s_FULL, table, <<>>, condition)

JoinAs(table, alias, condition)      == addJoin(s_JOIN, table, alias, condition)
LeftJoinAs(table, alias, condition)  == addJoin(s_LEFT, table, alias, condition)
RightJoinAs(table, alias, condition) == addJoin(s_RIGHT, table, alias, condition)
InnerJoinAs(table, alias, condition) == addJoin(s_INNER, table, alias, condition)
FullJoinAs(table, alias, condition)  == addJoin(s_FULL, table, alias, condition)

As(alias) ==
    /\ b' = [b EXCEPT !.tableAlias = alias]
    /\ ret' = Self
    /\ builds' = 0
    /\ UNCHANGED calls

----------------------------------------------------------------------------
(* Rendering.                                                              *)

\* one fragment written to the strings.Builder: clause, part, text
P(c, k, s) == [c |-> c, k |-> k, s |-> s]

s_select == <<"s","e","l","e","c","t"," ">>
s_from   == <<" ","f","r","o","m"," ">>
s_as     == <<" ","a","s"," ">>
s_on     == <<" ","o","n"," ">>
s_where  == <<" ","w","h","e","r","e"," ">>
s_order  == <<" ","o","r","d","e","r"," ","b","y"," ">>
s_limit  == <<" ","l","i","m","i","t"," ">>
s_offset == <<" ","o","f","f","s","e","t"," ">>
s_insert == <<"i","n","s","e","r","t"," ","i","n","t","o"," ">>
s_open   == <<" ","(">>
s_values == <<")"," ","v","a","l","u","e","s"," ","(">>
s_close  == <<")">>
s_update == <<"u","p","d","a","t","e"," ">>
s_set    == <<" ","s","e","t"," ">>
s_eq     == <<" ","="," ">>
s_delete == <<"d","e","l","e","t","e"," ","f","r","o","m"," ">>
s_comma  == <<",", " ">>
s_sp     == <<" ">>

\* a generator that counts from 0
getPlaceholderZeroBased(r, index) ==
    IF r.paramStyle = QuestionMark THEN <<"?">> ELSE <<"$">> \o Itoa(index - 1)

\* a generator that reads the style for the first placeholder only
getPlaceholderMixed(r, index) ==
    IF r.paramStyle = QuestionMark /\ index = 1 THEN <<"?">>
    ELSE <<"$">> \o Itoa(index)

getPlaceholder(r, index) ==
    IF r.paramStyle = QuestionMark THEN <<"?">>
    ELSE IF r.paramStyle = DollarNumber THEN <<"$">> \o Itoa(index)
    ELSE <<"$">> \o Itoa(index)

\* strings.Join(items, ", "), every item a sequence of fragments
JoinComma(c, items) ==
    Flat([i \in 1..Len(items) |->
            (IF i > 1 THEN <<P(c, "sep", s_comma)>> ELSE <<>>) \o items[i]])

\* a predicate with its joiner rendered even when it is the first
predicateOfJoined(r, i, paramCount) ==
    LET where == r.whereClauses[i] IN
    << P("where", "joiner", s_sp \o where.JoinType \o s_sp),
       P("where", "col", safeIdentifier(where.Column)),
       P("where", "sp", s_sp),
       P("where", "op", escapeIdentifier(where.Operator)),
       P("where", "sp", s_sp),
       P("where", "ph", getPlaceholder(r, paramCount)) >>

\* one turn of the loop of buildWhereClause: predicate i, numbered paramCount
predicateOf(r, i, paramCount) ==
    LET where == r.whereClauses[i] IN
    (IF i > 1
     THEN <<P("where", "joiner", s_sp \o where.JoinType \o s_sp)>>
     ELSE <<>>) \o
    << P("where", "col", safeIdentifier(where.Column)),
       P("where", "sp", s_sp),
       P("where", "op", escapeIdentifier(where.Operator)),
       P("where", "sp", s_sp),
       P("where", "ph", getPlaceholder(r, paramCount)) >>

\* a composer that joins every predicate with " and "
buildWhereClauseAllAnd(r, paramCount) ==
    LET rr == [r EXCEPT !.whereClauses =
                 [i \in 1..Len(r.whereClauses) |->
                     [r.whereClauses[i] EXCEPT !.JoinType = s_and]]] IN
    [ sql    |-> <<P("where", "kw", s_where)>> \o
                 Flat([i \in 1..Len(r.whereClauses) |->
                         predicateOf(rr, i, paramCount + i)]),
      params |-> [i \in 1..Len(r.whereClauses) |-> r.whereClauses[i].Value],
      count  |-> paramCount + Len(r.whereClauses) ]

buildWhereClause(r, paramCount) ==
    [ sql    |-> <<P("where", "kw", s_where)>> \o
                 Flat([i \in 1..Len(r.whereClauses) |->
                         predicateOf(r, i, paramCount + i)]),
      params |-> [i \in 1..Len(r.whereClauses) |-> r.whereClauses[i].Value],
      count  |-> paramCount + Len(r.whereClauses) ]

\* a WHERE step that restarts the count
whereOfRestart(r, paramCount) ==
    IF Len(r.whereClauses) > 0
    THEN buildWhereClause(r, 0)
    ELSE [sql |-> <<>>, params |-> <<>>, count |-> paramCount]

\* the WHERE part of a renderer: nothing when there is no predicate
whereOf(r, paramCount) ==
    IF Len(r.whereClauses) > 0
    THEN buildWhereClause(r, paramCount)
    ELSE [sql |-> <<>>, params |-> <<>>, count |-> paramCount]

orderOf(r) ==
    IF r.order # <<>>
    THEN <<P("order", "kw", s_order), P("order", "expr", safeIdentifier(r.order))>>
    ELSE <<>>

\* a LIMIT step that takes every nonzero limit
limitOfNonZero(r) ==
    IF r.limit # 0
    THEN <<P("limit", "kw", s_limit), P("limit", "num", Itoa(r.limit))>>
    ELSE <<>>

limitOf(r) ==
    IF r.limit > 0
    THEN <<P("limit", "kw", s_limit), P("limit", "num", Itoa(r.limit))>>
    ELSE <<>>

\* an OFFSET step that also writes the offset 0
offsetOfAny(r) ==
    IF r.offset >= 0
    THEN <<P("offset", "kw", s_offset), P("offset", "num", Itoa(r.offset))>>
    ELSE <<>>

offsetOf(r) ==
    IF r.offset > 0
    THEN <<P("offset", "kw", s_offset), P("offset", "num", Itoa(r.offset))>>
    ELSE <<>>

\* a JOIN step that walks the joins from the last to the first
joinsOfReversed(r) ==
    Flat([i \in 1..Len(r.joinClauses) |->
        LET join == r.joinClauses[Len(r.joinClauses) + 1 - i] IN
        << P("join", "sp", s_sp), P("join", "type", join.Type),
           P("join", "sp", s_sp), P("join", "table", safeIdentifier(join.Table)) >> \o
        (IF join.Alias # <<>>
         THEN <<P("join", "kw", s_as), P("join", "alias", safeIdentifier(join.Alias))>>
         ELSE <<>>) \o
        << P("join", "kw", s_on),
           P("join", "cond", escapeIdentifier(join.Condition)) >>])

joinsOf(r) ==
    Flat([i \in 1..Len(r.joinClauses) |->
        LET join == r.joinClauses[i] IN
        << P("join", "sp", s_sp), P("join", "type", join.Type),
           P("join", "sp", s_sp), P("join", "table", safeIdentifier(join.Table)) >> \o
        (IF join.Alias # <<>>
         THEN <<P("join", "kw", s_as), P("join", "alias", safeIdentifier(join.Alias))>>
         ELSE <<>>) \o
        << P("join", "kw", s_on),
           P("join", "cond", escapeIdentifier(join.Condition)) >>])

buildSelect(r) ==
    LET w == whereOf(r, 0) IN
    [ SQL    |-> <<P("select", "kw", s_select)>> \o
                 JoinComma("select", [i \in 1..Len(r.columns) |->
                                <<P("select", "col", safeIdentifier(r.columns[i]))>>]) \o
                 <<P("from", "kw", s_from),
                   P("from", "table", safeIdentifier(r.table))>> \o
                 (IF r.tableAlias # <<>>
                  THEN <<P("alias", "kw", s_as),
                         P("alias", "alias", safeIdentifier(r.tableAlias))>>
                  ELSE <<>>) \o
                 joinsOf(r) \o w.sql \o orderOf(r) \o limitOf(r) \o offsetOf(r),
      Params |-> w.params ]

\* buildInsert without insert columns
insertBare(r) ==
    [ SQL    |-> <<P("insert", "kw", s_insert),
                   P("insert", "table", safeIdentifier(r.table))>>,
      Params |-> <<>> ]

\* buildInsert with insert columns, n the number of placeholders
insertWith(r, n) ==
    [ SQL    |-> insertBare(r).SQL \o <<P("insert", "kw", s_open)>> \o
                 JoinComma("insert", [i \in 1..Len(r.insertColumns) |->
                    <<P("insert", "col", safeIdentifier(r.insertColumns[i]))>>]) \o
                 <<P("values", "kw", s_values)>> \o
                 JoinComma("values", [i \in 1..n |->
                    <<P("values", "ph", getPlaceholder(r, i))>>]) \o
                 <<P("values", "kw", s_close)>>,
      Params |-> r.insertValues ]

\* a renderer that emits one placeholder per insert column
buildInsertPerColumn(r) ==
    IF Len(r.insertColumns) > 0
    THEN insertWith(r, Len(r.insertColumns))
    ELSE insertBare(r)

\* a renderer that refuses insert columns and values of different counts
buildInsertStrict(r) ==
    IF Len(r.insertColumns) # Len(r.insertValues)
    THEN [err |-> "column count does not match value count"]
    ELSE IF Len(r.insertColumns) > 0
    THEN insertWith(r, Len(r.insertValues))
    ELSE insertBare(r)

\* a renderer that lets the predicates follow the insert
buildInsertWhere(r) ==
    LET q == IF Len(r.insertColumns) > 0
             THEN insertWith(r, Len(r.insertValues))
             ELSE insertBare(r)
        w == whereOf(r, Len(r.insertValues))
    IN  [SQL |-> q.SQL \o w.sql, Params |-> q.Params \o w.params]

buildInsert(r) ==
    IF Len(r.insertColumns) > 0
    THEN insertWith(r, Len(r.insertValues))
    ELSE insertBare(r)

buildUpdate(r) ==
    LET w == whereOf(r, Len(r.updateColumns)) IN
    [ SQL    |-> <<P("update", "kw", s_update),
                   P("update", "table", safeIdentifier(r.table)),
                   P("set", "kw", s_set)>> \o
                 JoinComma("set", [i \in 1..Len(r.updateColumns) |->
                    << P("set", "col", safeIdentifier(r.updateColumns[i])),
                       P("set", "eq", s_eq),
                       P("set", "ph", getPlaceholder(r, i)) >>]) \o
                 w.sql \o orderOf(r) \o limitOf(r),
      Params |-> r.updateValues \o w.params ]

\* buildDelete, paramCount the count its WHERE step starts from
deleteWith(r, paramCount) ==
    LET w == whereOf(r, paramCount) IN
    [ SQL    |-> <<P("delete", "kw", s_delete),
                   P("delete", "table", safeIdentifier(r.table))>> \o
                 w.sql \o orderOf(r) \o limitOf(r),
      Params |-> w.params ]

\* a renderer that counts on from the SET pairs, as buildUpdate does
buildDeleteAfterSet(r) == deleteWith(r, Len(r.updateColumns))

\* a renderer that lets the offset follow the limit, as buildSelect does
buildDeleteOffset(r) ==
    [ SQL    |-> deleteWith(r, 0).SQL \o offsetOf(r),
      Params |-> deleteWith(r, 0).Params ]

buildDelete(r) == deleteWith(r, 0)

BuildQuery(r) ==
    IF r.queryType = SelectQuery THEN buildSelect(r)
    ELSE IF r.queryType = InsertQuery THEN buildInsert(r)
    ELSE IF r.queryType = UpdateQuery THEN buildUpdate(r)
    ELSE IF r.queryType = DeleteQuery THEN buildDelete(r)
    ELSE buildSelect(r)

\* a Build that uses up the predicates it rendered
BuildConsuming ==
    /\ ret' = BuildQuery(b)
    /\ b' = [b EXCEPT !.whereClauses = <<>>]
    /\ builds' = builds + 1
    /\ UNCHANGED calls

\* a Build that leaves a fresh builder behind
BuildResetting ==
    /\ ret' = BuildQuery(b)
    /\ b' = NewQueryBuilder
    /\ builds' = builds + 1
    /\ UNCHANGED calls

\* Build reads the record and returns the Query
Build ==
    /\ ret' = BuildQuery(b)
    /\ b' = b
    /\ builds' = builds + 1
    /\ UNCHANGED calls

\* query.String()
Text(q) == Flat([i \in 1..Len(q.SQL) |-> q.SQL[i].s])

----------------------------------------------------------------------------
(* The calls of the model's caller and their arguments.                    *)

\* short identifiers: a table t, its alias u, a joined table a and its alias
\* x, the columns id, nm and ag, the join condition a.i=t.i
i_t    == <<"t">>
i_u    == <<"u">>
i_a    == <<"a">>
i_x    == <<"x">>
i_id   == <<"i","d">>
i_nm   == <<"n","m">>
i_ag   == <<"a","g">>
op_eq  == <<"=">>
op_gt  == <<">">>
c_on   == <<"a",".","i","=","t",".","i">>

Styles       == {QuestionMark, DollarNumber}
Tables       == {i_t}
Aliases      == {i_u}
ColumnLists  == {<<>>, <<i_id, i_nm>>}
Vals         == {1, 18}
Maps         == {<<>>, i_nm :> 1, (i_nm :> 18) @@ (i_ag :> 1)}
SetArgs      == {<<i_nm, 1>>, <<i_ag, 18>>, <<i_nm, 18>>}
InsertLists  == {<<>>, <<i_nm>>, <<i_nm, i_ag>>}
ValueLists   == {<<>>, <<1>>, <<18, 1>>}
WhereColumns == {i_id}
Operators    == {op_eq}
Orders       == {<<>>, i_nm}
Limits       == {-1, 0, 10}
Offsets      == {0, 20}
JoinTables   == {i_a}
JoinAliases  == {i_x}
Conditions   == {c_on}

Next ==
    \/ \E style \in Styles : ParameterPlaceholder(style) /\ Fits(b')
    \/ \E table \in Tables : Table(table) /\ Fits(b')
    \/ \E alias \in Aliases : As(alias) /\ Fits(b')
    \/ \E cols \in ColumnLists : Select(cols) /\ Fits(b')
    \/ \E data \in Maps : Insert(data) /\ Fits(b')
    \/ \E cols \in InsertLists : InsertColumns(cols) /\ Fits(b')
    \/ \E values \in ValueLists : Values(values) /\ Fits(b')
    \/ \E data \in Maps : Update(data) /\ Fits(b')
    \/ \E a \in SetArgs : Set(a[1], a[2]) /\ Fits(b')
    \/ Delete /\ Fits(b')
    \/ \E column \in WhereColumns, operator \in Operators, value \in Vals :
          Where(column, operator, value) /\ Fits(b')
    \/ \E column \in WhereColumns, operator \in Operators, value \in Vals :
          OrWhere(column, operator, value) /\ Fits(b')
    \/ \E order \in Orders : OrderBy(order) /\ Fits(b')
    \/ \E limit \in Limits : Limit(limit) /\ Fits(b')
    \/ \E offset \in Offsets : Offset(offset) /\ Fits(b')
    \/ \E table \in JoinTables, condition \in Conditions : Join(table, condition) /\ Fits(b')
    \/ \E table \in JoinTables, condition \in Conditions : LeftJoin(table, condition) /\ Fits(b')
    \/ \E table \in JoinTables, condition \in Conditions : RightJoin(table, condition) /\ Fits(b')
    \/ \E table \in JoinTables, condition \in Conditions : InnerJoin(table, condition) /\ Fits(b')
    \/ \E table \in JoinTables, condition \in Conditions : FullJoin(table, condition) /\ Fits(b')
    \/ \E table \in JoinTables, alias \in JoinAliases, condition \in Conditions :
          JoinAs(table, alias, condition) /\ Fits(b')
    \/ \E table \in JoinTables, alias \in JoinAliases, condition \in Conditions :
          LeftJoinAs(table, alias, condition) /\ Fits(b')
    \/ \E table \in JoinTables, alias \in JoinAliases, condition \in Conditions :
          RightJoinAs(table, alias, condition) /\ Fits(b')
    \/ \E table \in JoinTables, alias \in JoinAliases, condition \in Conditions :
          InnerJoinAs(table, alias, condition) /\ Fits(b')
    \/ \E table \in JoinTables, alias \in JoinAliases, condition \in Conditions :
          FullJoinAs(table, alias, condition) /\ Fits(b')
    \/ Build /\ builds < MaxBuilds

Spec == Init /\ [][Next]_vars

----------------------------------------------------------------------------
(* SpecWhere: a caller that declares only SET pairs and predicates and     *)
(* switches the statement kind, with longer lists than Spec allows.        *)

PredArgs   == {<<i_id, op_eq, 1>>, <<i_nm, op_gt, 18>>}
OrPredArgs == {<<i_id, op_eq, 18>>}
PairArgs   == {<<i_nm, 1>>, <<i_ag, 18>>}

NextWhere ==
    \/ \E cols \in {<<>>} : Select(cols)
    \/ \E data \in Maps : Update(data)
    \/ \E a \in PairArgs : Set(a[1], a[2]) /\ Len(b'.updateColumns) <= MaxSet
    \/ Delete
    \/ \E a \in PredArgs : Where(a[1], a[2], a[3]) /\ Len(b'.whereClauses) <= MaxWhere
    \/ \E a \in OrPredArgs : OrWhere(a[1], a[2], a[3]) /\ Len(b'.whereClauses) <= MaxWhere
    \/ Build /\ builds < MaxBuilds

SpecWhere == Init /\ [][NextWhere]_vars

----------------------------------------------------------------------------
(* SpecInsert: a caller that declares an Insert.                           *)

InsertTables == {i_t, <<"t",";","-","-">>}
InsertCols   == InsertLists \cup {<<i_ag, <<"n","\"","m">> >>}
InsertVals   == ValueLists \cup {<<1, 18, 1>>}

NextInsert ==
    \/ \E style \in Styles : ParameterPlaceholder(style)
    \/ \E table \in InsertTables : Table(table)
    \/ \E data \in Maps : Insert(data)
    \/ \E cols \in InsertCols : InsertColumns(cols)
    \/ \E values \in InsertVals : Values(values)
    \/ Build /\ builds < MaxBuilds

SpecInsert == Init /\ [][NextInsert]_vars

----------------------------------------------------------------------------
(* SpecSelect: a caller that declares a Select, every clause of it.        *)

SelectAliases == {<<>>, i_u}
SelectOffsets == {-1, 0, 20}

NextSelect ==
    \/ \E table \in Tables : Table(table)
    \/ \E alias \in SelectAliases : As(alias)
    \/ \E cols \in ColumnLists : Select(cols)
    \/ \E table \in JoinTables, condition \in Conditions :
          Join(table, condition) /\ Len(b'.joinClauses) <= MaxJoins
    \/ \E table \in JoinTables, alias \in JoinAliases, condition \in Conditions :
          LeftJoinAs(table, alias, condition) /\ Len(b'.joinClauses) <= MaxJoins
    \/ \E a \in PredArgs : Where(a[1], a[2], a[3]) /\ Len(b'.whereClauses) <= MaxSelWhere
    \/ \E order \in Orders : OrderBy(order)
    \/ \E limit \in Limits : Limit(limit)
    \/ \E offset \in SelectOffsets : Offset(offset)
    \/ Build /\ builds < MaxBuilds

SpecSelect == Init /\ [][NextSelect]_vars

----------------------------------------------------------------------------
(* SpecInj: a caller that passes hostile strings in the sanitized          *)
(* positions of a Select (TestSQLInjection_* in the security tests).       *)

\* "t; DROP TABLE lg; --" and a mixed-case spelling of it
inj_t == <<"t",";"," ","D","R","O","P"," ","T","A","B","L","E"," ","l","g",";"," ","-","-">>
inj_m == <<"t",";"," ","d","R","o","P"," ","t","A","b","L","e"," ","l","g",";"," ","-","-">>
\* "a.i=t.i; DROP TABLE lg; --"
inj_c == <<"a",".","i","=","t",".","i",";"," ","D","R","O","P"," ","T","A","B","L","E"," ","l","g",";"," ","-","-">>
\* a keyword wrapped around a keyword, and a keyword in an operator
inj_n == <<"d","r","D","R","O","P","o","p">>
inj_o == <<"=","e","x","e","c">>
\* what the hostile strings try to have executed
s_dropTable == <<"d","r","o","p"," ","t","a","b","l","e"," ","l","g">>
s_tableName == <<" ","t","a","b","l","e"," ","l","g">>

InjTables     == {i_t, inj_t, inj_n}
InjAliases    == {i_u, inj_n}
InjColumns    == {<<i_id, inj_m>>, <<inj_n>>}
InjPreds      == {<<inj_t, op_eq, 1>>, <<i_id, inj_o, 1>>, <<inj_n, op_eq, 1>>}
InjOrders     == {inj_t, inj_n}
InjJoinTables == {i_a, inj_t}
InjConds      == {c_on, inj_c}
InjJoinAliases == {i_x, inj_n}

NextInj ==
    \/ \E table \in InjTables : Table(table) /\ Fits(b')
    \/ \E alias \in InjAliases : As(alias) /\ Fits(b')
    \/ \E cols \in InjColumns : Select(cols) /\ Fits(b')
    \/ \E a \in InjPreds : Where(a[1], a[2], a[3]) /\ Fits(b')
    \/ \E order \in InjOrders : OrderBy(order) /\ Fits(b')
    \/ \E table \in InjJoinTables, condition \in InjConds :
          LeftJoin(table, condition) /\ Fits(b')
    \/ \E table \in JoinTables, alias \in InjJoinAliases, condition \in Conditions :
          LeftJoinAs(table, alias, condition) /\ Fits(b')
    \/ Build /\ builds < MaxBuilds

SpecInj == Init /\ [][NextInj]_vars

----------------------------------------------------------------------------
(* SpecStyle: a caller that switches the placeholder style and the         *)
(* statement kind around mapping payloads and predicates.                  *)

NextStyle ==
    \/ \E style \in Styles : ParameterPlaceholder(style)
    \/ \E cols \in {<<>>} : Select(cols)
    \/ \E data \in Maps : Insert(data)
    \/ \E data \in Maps : Update(data)
    \/ Delete
    \/ \E a \in PredArgs : Where(a[1], a[2], a[3]) /\ Len(b'.whereClauses) <= MaxStyleWhere
    \/ Build /\ builds < MaxBuilds

SpecStyle == Init /\ [][NextStyle]_vars

----------------------------------------------------------------------------
(* The plain builder: the renderers as they were before the safety layer.  *)
(* Its declaration calls are those of the hardened builder, so after the   *)
(* same calls it holds the same record; only Build differs.                *)

\* strings.Join(strs, ", ")
stringsJoin(strs) ==
    Flat([i \in 1..Len(strs) |-> (IF i > 1 THEN s_comma ELSE <<>>) \o strs[i]])

buildWhereClausePlain(r, paramCount) ==
    [ sql    |-> s_where \o
                 Flat([i \in 1..Len(r.whereClauses) |->
                    LET where == r.whereClauses[i] IN
                    (IF i > 1 THEN s_sp \o where.JoinType \o s_sp ELSE <<>>) \o
                    where.Column \o s_sp \o where.Operator \o s_sp \o
                    getPlaceholder(r, paramCount + i)]),
      params |-> [i \in 1..Len(r.whereClauses) |-> r.whereClauses[i].Value],
      count  |-> paramCount + Len(r.whereClauses) ]

whereOfPlain(r, paramCount) ==
    IF Len(r.whereClauses) > 0
    THEN buildWhereClausePlain(r, paramCount)
    ELSE [sql |-> <<>>, params |-> <<>>, count |-> paramCount]

orderOfPlain(r) == IF r.order # <<>> THEN s_order \o r.order ELSE <<>>

limitOfPlain(r) == IF r.limit > 0 THEN s_limit \o Itoa(r.limit) ELSE <<>>

offsetOfPlain(r) == IF r.offset > 0 THEN s_offset \o Itoa(r.offset) ELSE <<>>

buildSelectPlain(r) ==
    LET w == whereOfPlain(r, 0) IN
    [ SQL    |-> s_select \o stringsJoin(r.columns) \o s_from \o r.table \o
                 (IF r.tableAlias # <<>> THEN s_as \o r.tableAlias ELSE <<>>) \o
                 Flat([i \in 1..Len(r.joinClauses) |->
                    LET join == r.joinClauses[i] IN
                    s_sp \o join.Type \o s_sp \o join.Table \o
                    (IF join.Alias # <<>> THEN s_as \o join.Alias ELSE <<>>) \o
                    s_on \o join.Condition]) \o
                 w.sql \o orderOfPlain(r) \o limitOfPlain(r) \o offsetOfPlain(r),
      Params |-> w.params ]

buildInsertPlain(r) ==
    IF Len(r.insertColumns) > 0
    THEN [ SQL    |-> s_insert \o r.table \o s_open \o
                      stringsJoin(r.insertColumns) \o s_values \o
                      stringsJoin([i \in 1..Len(r.insertValues) |->
                                      getPlaceholder(r, i)]) \o
                      s_close,
           Params |-> r.insertValues ]
    ELSE [ SQL |-> s_insert \o r.table, Params |-> <<>> ]

buildUpdatePlain(r) ==
    LET w == whereOfPlain(r, Len(r.updateColumns)) IN
    [ SQL    |-> s_update \o r.table \o s_set \o
                 stringsJoin([i \in 1..Len(r.updateColumns) |->
                    r.updateColumns[i] \o s_eq \o getPlaceholder(r, i)]) \o
                 w.sql \o orderOfPlain(r) \o limitOfPlain(r),
      Params |-> r.updateValues \o w.params ]

buildDeletePlain(r) ==
    LET w == whereOfPlain(r, 0) IN
    [ SQL    |-> s_delete \o r.table \o w.sql \o orderOfPlain(r) \o limitOfPlain(r),
      Params |-> w.params ]

\* Build of the plain builder; its SQL is the text itself
BuildPlain(r) ==
    IF r.queryType = SelectQuery THEN buildSelectPlain(r)
    ELSE IF r.queryType = InsertQuery THEN buildInsertPlain(r)
    ELSE IF r.queryType = UpdateQuery THEN buildUpdatePlain(r)
    ELSE IF r.queryType = DeleteQuery THEN buildDeletePlain(r)
    ELSE buildSelectPlain(r)

----------------------------------------------------------------------------
(* SpecCompat: a caller of the documented examples, names made of letters, *)
(* digits, underscores and dots only.                                      *)

\* OrderBy("p.created_at") of the example with table aliases
i_created == <<"p",".","c","r","e","a","t","e","d","_","a","t">>

CompatOrders == {i_nm, i_created}
CompatMaps   == {i_nm :> 1}

NextCompat ==
    \/ \E table \in Tables : Table(table)
    \/ \E alias \in Aliases : As(alias)
    \/ \E cols \in ColumnLists : Select(cols)
    \/ \E data \in CompatMaps : Insert(data)
    \/ \E data \in CompatMaps : Update(data)
    \/ Delete
    \/ \E table \in JoinTables, alias \in JoinAliases, condition \in Conditions :
          LeftJoinAs(table, alias, condition) /\ Len(b'.joinClauses) <= MaxJoins
    \/ \E a \in PredArgs : Where(a[1], a[2], a[3]) /\ Len(b'.whereClauses) <= MaxSelWhere
    \/ \E order \in CompatOrders : OrderBy(order)
    \/ Build /\ builds < MaxBuilds

SpecCompat == Init /\ [][NextCompat]_vars

----------------------------------------------------------------------------
(* SpecEdge: a caller that makes incomplete and odd declarations: no       *)
(* table, values without insert columns, counts that differ, an empty      *)
(* update mapping, limits and offsets that are not positive, predicates    *)
(* on any statement.                                                       *)

EdgeInsertLists == {<<>>, <<i_nm>>}
EdgeValueLists  == {<<>>, <<18, 1>>}
EdgeMaps        == {<<>>, i_nm :> 1}

NextEdge ==
    \/ \E cols \in {<<>>} : Select(cols)
    \/ \E cols \in EdgeInsertLists : InsertColumns(cols)
    \/ \E values \in EdgeValueLists : Values(values)
    \/ \E data \in EdgeMaps : Update(data)
    \/ Delete
    \/ \E a \in PredArgs : Where(a[1], a[2], a[3]) /\ Len(b'.whereClauses) <= MaxSelWhere
    \/ \E limit \in Limits : Limit(limit)
    \/ \E offset \in SelectOffsets : Offset(offset)
    \/ Build /\ builds < MaxBuilds

SpecEdge == Init /\ [][NextEdge]_vars

----------------------------------------------------------------------------
(* Properties.                                                             *)

IsPlaceholder(p) == p.k = "ph"

\* the fragments the placeholder generator wrote, left to right
Placeholders(q) == SelectSeq(q.SQL, IsPlaceholder)

\* the text of the k-th DollarNumber placeholder
Dollar(k) == <<"$">> \o Itoa(k)

\* C1: whatever the statement kind, Build emits as many placeholders as it
\* returns parameters, and in DollarNumber style the placeholders read left
\* to right are $1, $2, ..., $len(Params).
C1_PlaceholdersMatchParams ==
    IsQuery(ret) =>
        LET ph == Placeholders(ret) IN
        /\ Len(ph) = Len(ret.Params)
        /\ b.paramStyle = DollarNumber =>
              \A i \in 1..Len(ph) : ph[i].s = Dollar(i)

\* an Update with a SET pair and a predicate was built in DollarNumber style
C1_Witness ==
    /\ IsQuery(ret)
    /\ b.queryType = UpdateQuery
    /\ b.paramStyle = DollarNumber
    /\ Len(b.updateColumns) = 1
    /\ Len(b.whereClauses) = 1
    /\ Len(ret.Params) = 2

\* C6: a call that returns a Query leaves every field of the builder as it was.
C6_BuildLeavesRecord ==
    [][IsQuery(ret') =>
          /\ b'.queryType = b.queryType
          /\ b'.table = b.table
          /\ b'.tableAlias = b.tableAlias
          /\ b'.columns = b.columns
          /\ b'.whereClauses = b.whereClauses
          /\ b'.joinClauses = b.joinClauses
          /\ b'.order = b.order
          /\ b'.limit = b.limit
          /\ b'.offset = b.offset
          /\ b'.paramStyle = b.paramStyle
          /\ b'.insertColumns = b.insertColumns
          /\ b'.insertValues = b.insertValues
          /\ b'.updateColumns = b.updateColumns
          /\ b'.updateValues = b.updateValues]_vars

\* an Update with a SET pair and a predicate was built
C6_Witness ==
    /\ IsQuery(ret)
    /\ b.queryType = UpdateQuery
    /\ Len(b.updateColumns) > 0
    /\ Len(b.whereClauses) > 0

\* C7: a Build that follows a Build, with no declaration in between, returns
\* the Query the first one returned.
C7_BuildTwiceSame ==
    [][(builds >= 1 /\ builds' = builds + 1) => ret' = ret]_vars

\* Build was called twice in a row on an Insert of two columns and values
C7_Witness ==
    /\ builds = 2
    /\ b.queryType = InsertQuery
    /\ Len(b.insertColumns) = 2
    /\ Len(ret.Params) = 2

\* the fragments of clause c, left to right
Clause(q, c) == SelectSeq(q.SQL, LAMBDA p : p.c = c)

\* the fragments of part k among ps, left to right
Part(ps, k) == SelectSeq(ps, LAMBDA p : p.k = k)

\* the values of the predicates, in declaration order
PredicateValues(r) == [i \in 1..Len(r.whereClauses) |-> r.whereClauses[i].Value]

\* C2: an Update with M SET pairs and N predicates numbers the SET
\* placeholders $1..$M in column order and the WHERE placeholders
\* $M+1..$M+N in predicate order; Params is the M update values followed by
\* the N predicate values.
C2_UpdateNumbering ==
    (IsQuery(ret) /\ b.queryType = UpdateQuery /\ b.paramStyle = DollarNumber) =>
        LET M   == Len(b.updateColumns)
            N   == Len(b.whereClauses)
            set == Clause(ret, "set")
            whr == Clause(ret, "where")
        IN  /\ Len(Part(set, "ph")) = M
            /\ Len(Part(set, "col")) = M
            /\ \A i \in 1..M :
                  /\ Part(set, "ph")[i].s = Dollar(i)
                  /\ Part(set, "col")[i].s = safeIdentifier(b.updateColumns[i])
            /\ Len(Part(whr, "ph")) = N
            /\ \A i \in 1..N :
                  /\ Part(whr, "ph")[i].s = Dollar(M + i)
                  /\ Part(whr, "col")[i].s = safeIdentifier(b.whereClauses[i].Column)
            /\ ret.Params = b.updateValues \o PredicateValues(b)

\* an Update with two SET pairs and two predicates was built
C2_Witness ==
    /\ IsQuery(ret)
    /\ b.queryType = UpdateQuery
    /\ Len(b.updateColumns) = 2
    /\ Len(b.whereClauses) = 2
    /\ b.updateValues # <<1, 1>>
    /\ Len(ret.Params) = 4

\* C3: after N >= 1 Where/OrWhere calls on a Select, Update or Delete, the
\* WHERE fragment starts with " where ", written once, holds N placeholders,
\* lists the predicates in declaration order, puts " and " or " or " before
\* predicate i > 1 as the call that added it says and nothing before the
\* first, and the predicate values are in Params in declaration order.
C3_WhereFragment ==
    (/\ IsQuery(ret)
     /\ b.queryType \in {SelectQuery, UpdateQuery, DeleteQuery}
     /\ Len(b.whereClauses) >= 1) =>
        LET N   == Len(b.whereClauses)
            whr == Clause(ret, "where")
            M   == Len(ret.Params) - N
        IN  /\ whr[1] = P("where", "kw", s_where)
            /\ Len(Part(whr, "kw")) = 1
            /\ Len(Part(whr, "ph")) = N
            /\ Len(Part(whr, "col")) = N
            /\ Len(Part(whr, "op")) = N
            /\ Len(Part(whr, "joiner")) = N - 1
            /\ \A i \in 1..N :
                  /\ Part(whr, "col")[i].s = safeIdentifier(b.whereClauses[i].Column)
                  /\ Part(whr, "op")[i].s = escapeIdentifier(b.whereClauses[i].Operator)
                  /\ i > 1 => Part(whr, "joiner")[i - 1].s =
                                  s_sp \o b.whereClauses[i].JoinType \o s_sp
            \* the order of the parts: [joiner] col sp op sp ph, once a predicate
            /\ Len(whr) = 1 + 5 * N + (N - 1)
            /\ \A j \in 2..Len(whr) :
                  /\ whr[j].k = "joiner" => whr[j - 1].k = "ph" /\ whr[j + 1].k = "col"
                  /\ whr[j].k = "col" => whr[j + 1].k = "sp" /\ whr[j + 2].k = "op"
                  /\ whr[j].k = "op" => whr[j + 1].k = "sp" /\ whr[j + 2].k = "ph"
            /\ whr[2].k = "col"
            /\ M >= 0
            /\ \A i \in 1..N : ret.Params[M + i] = b.whereClauses[i].Value

\* a Delete with three predicates, the second added by OrWhere and the third
\* by Where, was built
C3_Witness ==
    /\ IsQuery(ret)
    /\ b.queryType = DeleteQuery
    /\ Len(b.whereClauses) = 3
    /\ b.whereClauses[2].JoinType = s_or
    /\ b.whereClauses[3].JoinType = s_and
    /\ b.whereClauses[1].Value # b.whereClauses[3].Value

\* the clauses of a Select in the order of the claim
SelectRank == [select |-> 1, from |-> 2, alias |-> 3, join |-> 4,
               where |-> 5, order |-> 6, limit |-> 7, offset |-> 8]

\* the fragments of q are those of the clauses of rank, in the order of rank
InRankOrder(q, rank) ==
    /\ \A i \in 1..Len(q.SQL) : q.SQL[i].c \in DOMAIN rank
    /\ \A i, j \in 1..Len(q.SQL) : i < j => rank[q.SQL[i].c] <= rank[q.SQL[j].c]

\* clause c is there and starts with keyword kw
StartsWith(q, c, kw) == Clause(q, c) # <<>> /\ Clause(q, c)[1].s = kw

\* C8: a Select is written in the order select-columns, from-table, alias,
\* joins, where, order by, limit, offset, whatever the order of the calls,
\* and a clause is left out exactly when its field is empty (alias, joins,
\* predicates, order) or not positive (limit, offset).
C8_SelectClauseOrder ==
    (IsQuery(ret) /\ b.queryType = SelectQuery) =>
        /\ InRankOrder(ret, SelectRank)
        /\ StartsWith(ret, "select", s_select)
        /\ Len(Part(Clause(ret, "select"), "col")) = Len(b.columns)
        /\ StartsWith(ret, "from", s_from)
        /\ Clause(ret, "from")[2].s = safeIdentifier(b.table)
        /\ StartsWith(ret, "alias", s_as) <=> b.tableAlias # <<>>
        /\ Clause(ret, "alias") = <<>> <=> b.tableAlias = <<>>
        /\ Len(Part(Clause(ret, "join"), "type")) = Len(b.joinClauses)
        /\ Clause(ret, "join") = <<>> <=> b.joinClauses = <<>>
        /\ StartsWith(ret, "where", s_where) <=> b.whereClauses # <<>>
        /\ Clause(ret, "where") = <<>> <=> b.whereClauses = <<>>
        /\ StartsWith(ret, "order", s_order) <=> b.order # <<>>
        /\ Clause(ret, "order") = <<>> <=> b.order = <<>>
        /\ Clause(ret, "limit") = <<>> <=> b.limit <= 0
        /\ b.limit > 0 =>
              Clause(ret, "limit") =
                 <<P("limit", "kw", s_limit), P("limit", "num", Itoa(b.limit))>>
        /\ Clause(ret, "offset") = <<>> <=> b.offset <= 0
        /\ b.offset > 0 =>
              Clause(ret, "offset") =
                 <<P("offset", "kw", s_offset), P("offset", "num", Itoa(b.offset))>>

\* a Select with every clause was built
C8_Witness ==
    /\ IsQuery(ret)
    /\ b.queryType = SelectQuery
    /\ b.tableAlias # <<>>
    /\ Len(b.joinClauses) = 1
    /\ Len(b.whereClauses) = 1
    /\ b.order # <<>>
    /\ b.limit > 0
    /\ b.offset > 0

\* strings.Join(strs, ", ")
CommaList(strs) ==
    Flat([i \in 1..Len(strs) |-> (IF i > 1 THEN s_comma ELSE <<>>) \o strs[i]])

\* the i-th placeholder in the style of r
PlaceholderText(r, i) == IF r.paramStyle = QuestionMark THEN <<"?">> ELSE Dollar(i)

\* C9: an Insert with insert columns is "insert into <table> (<columns>)
\* values (<placeholders>)" with one placeholder per insert value, numbered
\* 1..len(insertValues), and Params is insertValues; without insert columns
\* it is "insert into <table>" with no parameter.
C9_InsertText ==
    (IsQuery(ret) /\ b.queryType = InsertQuery) =>
        IF Len(b.insertColumns) > 0
        THEN /\ Text(ret) =
                   s_insert \o safeIdentifier(b.table) \o <<" ", "(">> \o
                   CommaList([i \in 1..Len(b.insertColumns) |->
                                 safeIdentifier(b.insertColumns[i])]) \o
                   <<")"," ","v","a","l","u","e","s"," ","(">> \o
                   CommaList([i \in 1..Len(b.insertValues) |->
                                 PlaceholderText(b, i)]) \o
                   <<")">>
             /\ Len(Placeholders(ret)) = Len(b.insertValues)
             /\ ret.Params = b.insertValues
        ELSE /\ Text(ret) = s_insert \o safeIdentifier(b.table)
             /\ Placeholders(ret) = <<>>
             /\ ret.Params = <<>>

\* an Insert with one column and two values was built
C9_Witness ==
    /\ IsQuery(ret)
    /\ b.queryType = InsertQuery
    /\ Len(b.insertColumns) = 1
    /\ Len(b.insertValues) = 2

\* the clauses of a Delete in their order
DeleteRank == [delete |-> 1, where |-> 2, order |-> 3, limit |-> 4]

\* C10: a Delete is "delete from <table>" and then the where, order by and
\* limit clauses that are declared; its WHERE placeholders count from 1 and
\* Params holds the predicate values only, also on a builder that holds
\* update pairs or an insert payload.
C10_DeleteQuery ==
    (IsQuery(ret) /\ b.queryType = DeleteQuery) =>
        LET whr == Clause(ret, "where") IN
        /\ InRankOrder(ret, DeleteRank)
        /\ Clause(ret, "delete") =
              <<P("delete", "kw", s_delete),
                P("delete", "table", safeIdentifier(b.table))>>
        /\ StartsWith(ret, "where", s_where) <=> b.whereClauses # <<>>
        /\ whr = <<>> <=> b.whereClauses = <<>>
        /\ Clause(ret, "order") =
              (IF b.order # <<>>
               THEN <<P("order", "kw", s_order),
                      P("order", "expr", safeIdentifier(b.order))>>
               ELSE <<>>)
        /\ Clause(ret, "limit") =
              (IF b.limit > 0
               THEN <<P("limit", "kw", s_limit), P("limit", "num", Itoa(b.limit))>>
               ELSE <<>>)
        /\ Len(Part(whr, "ph")) = Len(b.whereClauses)
        /\ \A i \in 1..Len(b.whereClauses) :
              Part(whr, "ph")[i].s = PlaceholderText(b, i)
        /\ ret.Params = PredicateValues(b)

\* a Delete with a predicate was built on a builder that holds a SET pair
C10_Witness ==
    /\ IsQuery(ret)
    /\ b.queryType = DeleteQuery
    /\ Len(b.updateColumns) = 1
    /\ Len(b.whereClauses) = 1
    /\ ret.Params = <<b.whereClauses[1].Value>>

\* s holds one of the nine keywords of escapeIdentifier, in any letter case
Denied(s) == \E i \in 1..Len(reKeywords) : Contains(ToLower(s), reKeywords[i])

\* the fragments of clause c and part k of q
Rendered(q, c, k) == Part(Clause(q, c), k)

\* how many of the first i joins of r have an alias
AliasIndex(r, i) == Cardinality({j \in 1..i : r.joinClauses[j].Alias # <<>>})

\* C4: a string that holds one of the nine keywords, in any letter case, and
\* is passed in a sanitized position (table, alias, select column, predicate
\* column, operator, order expression, join table, join alias, join
\* condition) is rendered in that position without any of the nine keywords.
C4_NoKeywordRendered ==
    (IsQuery(ret) /\ b.queryType = SelectQuery) =>
        /\ Denied(b.table) => ~Denied(Rendered(ret, "from", "table")[1].s)
        /\ Denied(b.tableAlias) => ~Denied(Rendered(ret, "alias", "alias")[1].s)
        /\ \A i \in 1..Len(b.columns) :
              Denied(b.columns[i]) => ~Denied(Rendered(ret, "select", "col")[i].s)
        /\ \A i \in 1..Len(b.whereClauses) :
              /\ Denied(b.whereClauses[i].Column) =>
                    ~Denied(Rendered(ret, "where", "col")[i].s)
              /\ Denied(b.whereClauses[i].Operator) =>
                    ~Denied(Rendered(ret, "where", "op")[i].s)
        /\ Denied(b.order) => ~Denied(Rendered(ret, "order", "expr")[1].s)
        /\ \A i \in 1..Len(b.joinClauses) :
              /\ Denied(b.joinClauses[i].Table) =>
                    ~Denied(Rendered(ret, "join", "table")[i].s)
              /\ Denied(b.joinClauses[i].Alias) =>
                    ~Denied(Rendered(ret, "join", "alias")[AliasIndex(b, i)].s)
              /\ Denied(b.joinClauses[i].Condition) =>
                    ~Denied(Rendered(ret, "join", "cond")[i].s)

\* C5: when "<identifier or condition>; DROP TABLE <name>; --" is passed as
\* table, select column, predicate column, order expression, join table or
\* join condition, the text Build returns does not hold "drop table <name>"
\* in any letter case.
C5_NoDropTable ==
    IsQuery(ret) => ~Contains(ToLower(Text(ret)), s_dropTable)

\* a join on the hostile table was built: the keyword is gone, the rest stays
C5_Witness ==
    /\ IsQuery(ret)
    /\ Len(b.joinClauses) = 1
    /\ b.joinClauses[1].Table = inj_t
    /\ Contains(ToLower(Text(ret)), s_tableName)

\* C11: the style is DollarNumber until a ParameterPlaceholder call, only a
\* ParameterPlaceholder call changes it and the call sets the style it is
\* given, wherever it sits among the declarations; Build writes every
\* placeholder in the stored style: '?' each in QuestionMark style, '$k' for
\* the k-th in DollarNumber style, never a mix.
C11_StyleUniform ==
    /\ b.paramStyle = DollarNumber
    /\ [][/\ b'.paramStyle # b.paramStyle =>
                \E style \in Styles : ParameterPlaceholder(style)
          /\ \A style \in Styles :
                ParameterPlaceholder(style) => b'.paramStyle = style
          /\ IsQuery(ret') =>
                LET ph == Placeholders(ret') IN
                /\ \A i \in 1..Len(ph) : ph[i].s = PlaceholderText(b', i)
                /\ b'.paramStyle = QuestionMark =>
                      \A i \in 1..Len(ph) : ph[i].s = <<"?">>
                /\ b'.paramStyle = DollarNumber =>
                      \A i \in 1..Len(ph) : ph[i].s = Dollar(i)]_vars

\* an Update with two SET pairs and a predicate was built in QuestionMark style
C11_Witness ==
    /\ IsQuery(ret)
    /\ b.queryType = UpdateQuery
    /\ b.paramStyle = QuestionMark
    /\ Len(b.updateColumns) = 2
    /\ Len(b.whereClauses) = 1
    /\ Len(Placeholders(ret)) = 3

\* the step is one of the calls that set the statement kind
KindCall ==
    \/ \E cols \in ColumnLists : Select(cols)
    \/ \E data \in Maps : Insert(data)
    \/ \E cols \in InsertLists : InsertColumns(cols)
    \/ \E data \in Maps : Update(data)
    \/ \E a \in SetArgs : Set(a[1], a[2])
    \/ Delete

\* the first words of the four statements, by kind
KindWords == <<s_select, s_insert, s_update, s_delete>>

\* C12: Select sets the kind Select, Insert and InsertColumns set Insert,
\* Update and Set set Update, Delete sets Delete, every other call leaves
\* the kind as it is, and Build renders the statement of the stored kind, so
\* the most recent kind-setting call decides.
C12_LastKindWins ==
    [][/\ (\E cols \in ColumnLists : Select(cols)) => b'.queryType = SelectQuery
       /\ (\E data \in Maps : Insert(data)) => b'.queryType = InsertQuery
       /\ (\E cols \in InsertLists : InsertColumns(cols)) => b'.queryType = InsertQuery
       /\ (\E data \in Maps : Update(data)) => b'.queryType = UpdateQuery
       /\ (\E a \in SetArgs : Set(a[1], a[2])) => b'.queryType = UpdateQuery
       /\ Delete => b'.queryType = DeleteQuery
       /\ b'.queryType # b.queryType => KindCall
       /\ IsQuery(ret') => ret'.SQL[1].s = KindWords[b.queryType + 1]]_vars

\* a Delete was built on a builder that was an Insert and an Update before
C12_Witness ==
    /\ IsQuery(ret)
    /\ b.queryType = DeleteQuery
    /\ b.insertColumns # <<>>
    /\ b.updateColumns # <<>>
    /\ ret.SQL[1].s = s_delete

\* cols renders every key of data once and params[i] is the value data
\* gives to the key rendered at i
Paired(data, cols, params) ==
    \E o \in IterationOrders(data) :
       /\ cols = [i \in DOMAIN o |-> P(cols[1].c, "col", safeIdentifier(o[i]))]
       /\ SubSeq(params, 1, Len(o)) = [i \in DOMAIN o |-> data[o[i]]]

\* C13: whatever order the iteration over the map of Insert(map) or
\* Update(map) takes, the statement built from it lists every key of the map
\* once and its i-th parameter is the value of the map at the i-th listed
\* column.
C13_MapPairing ==
    [][/\ b'.queryType = InsertQuery =>
             \A data \in Maps :
                Insert(data) =>
                   \A q \in {BuildQuery(b')} :
                      /\ Paired(data, Rendered(q, "insert", "col"), q.Params)
                      /\ Len(q.Params) = Cardinality(DOMAIN data)
       /\ b'.queryType = UpdateQuery =>
             \A data \in Maps :
                Update(data) =>
                   \A q \in {BuildQuery(b')} :
                      /\ Paired(data, Rendered(q, "set", "col"), q.Params)
                      /\ Len(Rendered(q, "set", "ph")) = Cardinality(DOMAIN data)]_vars

\* an Insert from the map {nm: 18, ag: 1} was built with ag listed first
C13_Witness ==
    /\ IsQuery(ret)
    /\ b.queryType = InsertQuery
    /\ b.insertColumns = <<i_ag, i_nm>>
    /\ Rendered(ret, "insert", "col")[1].s = i_ag
    /\ ret.Params = <<1, 18>>

\* the five kinds of join
JoinKinds == {s_JOIN, s_LEFT, s_RIGHT, s_INNER, s_FULL}

\* ' <KIND> <table>[ as <alias>] on <condition>'
JoinText(join) ==
    <<" ">> \o join.Type \o <<" ">> \o safeIdentifier(join.Table) \o
    (IF join.Alias # <<>>
     THEN <<" ","a","s"," ">> \o safeIdentifier(join.Alias)
     ELSE <<>>) \o
    <<" ","o","n"," ">> \o escapeIdentifier(join.Condition)

\* C14: a Select writes its joins in declaration order, after the FROM table
\* and its alias and before the WHERE clause, each as
\* ' <KIND> <table>[ as <alias>] on <condition>' with KIND one of the five
\* kinds; the joins bind no parameter: without the join text the statement
\* and its Params are those of the same builder without joins.
C14_JoinsInOrder ==
    (IsQuery(ret) /\ b.queryType = SelectQuery) =>
        \A without \in {buildSelect([b EXCEPT !.joinClauses = <<>>])} :
           /\ \A i \in 1..Len(b.joinClauses) : b.joinClauses[i].Type \in JoinKinds
           /\ Text([SQL |-> Clause(ret, "join"), Params |-> <<>>]) =
                 Flat([i \in 1..Len(b.joinClauses) |-> JoinText(b.joinClauses[i])])
           /\ InRankOrder(ret, SelectRank)
           /\ SelectSeq(ret.SQL, LAMBDA p : p.c # "join") = without.SQL
           /\ ret.Params = without.Params

\* a Select was built with a LEFT JOIN under an alias and then a plain JOIN
C14_Witness ==
    /\ IsQuery(ret)
    /\ b.queryType = SelectQuery
    /\ Len(b.joinClauses) = 2
    /\ b.joinClauses[1].Type = s_LEFT
    /\ b.joinClauses[1].Alias = i_x
    /\ b.joinClauses[2].Type = s_JOIN
    /\ b.joinClauses[2].Alias = <<>>

\* s is made of letters, digits, underscores and dots
PlainChars ==
    {UpperChars[j] : j \in DOMAIN UpperChars} \cup
    {LowerChars[j] : j \in DOMAIN LowerChars} \cup
    {DigitChars[j] : j \in DOMAIN DigitChars} \cup {"_", "."}

IsPlainName(s) == \A i \in 1..Len(s) : s[i] \in PlainChars

\* the table, alias, predicate columns, join tables, join aliases and order
\* of r are plain names, and a table was declared
PlainInputs(r) ==
    /\ r.table # <<>>
    /\ IsPlainName(r.table)
    /\ IsPlainName(r.tableAlias)
    /\ IsPlainName(r.order)
    /\ \A i \in 1..Len(r.whereClauses) : IsPlainName(r.whereClauses[i].Column)
    /\ \A i \in 1..Len(r.joinClauses) :
          IsPlainName(r.joinClauses[i].Table) /\ IsPlainName(r.joinClauses[i].Alias)

\* C15: after declarations whose table, alias, predicate columns, join
\* tables, join aliases and order are made of letters, digits, underscores
\* and dots, Build returns the text and the parameters the plain builder
\* returns after the same declarations.
C15_SameAsPlain ==
    (IsQuery(ret) /\ PlainInputs(b)) =>
        /\ Text(ret) = BuildPlain(b).SQL
        /\ ret.Params = BuildPlain(b).Params

\* r has no predicate, no join, no order, limit 0 and offset 0
Bare(r) ==
    /\ r.whereClauses = <<>>
    /\ r.joinClauses = <<>>
    /\ r.order = <<>>
    /\ r.limit = 0
    /\ r.offset = 0

\* 'select ' + the rendered columns joined by ', ' + ' from ' + the rendered
\* table, and no parameter
IsBareSelect(q, r) ==
    /\ Text(q) =
          <<"s","e","l","e","c","t"," ">> \o
          CommaList([i \in 1..Len(r.columns) |-> safeIdentifier(r.columns[i])]) \o
          <<" ","f","r","o","m"," ">> \o safeIdentifier(r.table)
    /\ q.Params = <<>>

\* C16 as stated: a Select with no predicates, no joins, an empty order,
\* limit 0 and offset 0 is exactly 'select <columns> from <table>', nothing
\* after the table, with no parameter.
C16_BareSelectAsStated ==
    (IsQuery(ret) /\ b.queryType = SelectQuery /\ Bare(b)) => IsBareSelect(ret, b)

\* C16, amended: a Select with no predicates, no joins, an empty order,
\* limit 0, offset 0 and no table alias is exactly
\* 'select <columns> from <table>', nothing after the table, with no
\* parameter.
C16_BareSelect ==
    (IsQuery(ret) /\ b.queryType = SelectQuery /\ Bare(b) /\ b.tableAlias = <<>>) =>
        IsBareSelect(ret, b)

\* a Select of two columns from a table, and nothing else, was built
C16_Witness ==
    /\ IsQuery(ret)
    /\ b.queryType = SelectQuery
    /\ Bare(b)
    /\ b.tableAlias = <<>>
    /\ b.columns = <<i_id, i_nm>>
    /\ b.table = i_t

\* ' <word><n>' when n > 0, nothing otherwise
CountClause(c, word, n) ==
    IF n > 0 THEN <<P(c, "kw", word), P(c, "num", Itoa(n))>> ELSE <<>>

\* a limit or an offset that is not positive builds what 0 builds, and 0 is
\* what a builder holds on which the call was never made
NotPositiveAsNever(q, r) ==
    /\ r.limit <= 0 => q = BuildQuery([r EXCEPT !.limit = 0])
    /\ r.offset <= 0 => q = BuildQuery([r EXCEPT !.offset = 0])

\* C17 as stated: Build writes ' limit <n>' exactly when the stored limit is
\* > 0, whatever the statement, and a Select writes ' offset <n>' exactly
\* when the stored offset is > 0; a limit or offset that is not positive
\* builds the same as one that was never set.
C17_ZeroOmitsAsStated ==
    IsQuery(ret) =>
        /\ Clause(ret, "limit") = CountClause("limit", s_limit, b.limit)
        /\ b.queryType = SelectQuery =>
              Clause(ret, "offset") = CountClause("offset", s_offset, b.offset)
        /\ NotPositiveAsNever(ret, b)

\* C17, amended: a Select, an Update and a Delete write ' limit <n>' exactly
\* when the stored limit is > 0 and an Insert never writes it; a Select
\* writes ' offset <n>' exactly when the stored offset is > 0 and the other
\* statements never write it; a limit or offset that is not positive builds
\* the same as one that was never set.
C17_ZeroOmits ==
    IsQuery(ret) =>
        /\ b.queryType \in {SelectQuery, UpdateQuery, DeleteQuery} =>
              Clause(ret, "limit") = CountClause("limit", s_limit, b.limit)
        /\ b.queryType = InsertQuery => Clause(ret, "limit") = <<>>
        /\ b.queryType = SelectQuery =>
              Clause(ret, "offset") = CountClause("offset", s_offset, b.offset)
        /\ b.queryType # SelectQuery => Clause(ret, "offset") = <<>>
        /\ NotPositiveAsNever(ret, b)

\* a Select with a negative limit and a positive offset was built
C17_Witness ==
    /\ IsQuery(ret)
    /\ b.queryType = SelectQuery
    /\ b.limit < 0
    /\ b.offset > 0
    /\ Clause(ret, "limit") = <<>>
    /\ Clause(ret, "offset") # <<>>

\* q is a Query: a text made of written fragments and a list of values
WellFormed(q) ==
    /\ IsQuery(q)
    /\ DOMAIN q.SQL = 1..Len(q.SQL)
    /\ \A i \in 1..Len(q.SQL) :
          /\ DOMAIN q.SQL[i] = {"c", "k", "s"}
          /\ DOMAIN q.SQL[i].s = 1..Len(q.SQL[i].s)
    /\ DOMAIN q.Params = 1..Len(q.Params)
    /\ \A i \in 1..Len(q.Params) : q.Params[i] \in Int

\* C18: no call fails. Every declaration call returns the builder, every
\* Build call returns a Query, and Build would return a Query from every
\* record the declarations can leave: without a table, with values and no
\* insert columns, with insert columns and values of different counts, with
\* a negative limit or offset, with an empty update mapping, with a
\* predicate on an Insert.
C18_NeverFails ==
    /\ builds = 0 => ret = Self
    /\ builds > 0 => WellFormed(ret)
    /\ \A q \in {BuildQuery(b)} : WellFormed(q)

\* an Insert without a table, with one insert column, two values, a
\* predicate and a negative limit, was built
C18_Witness ==
    /\ builds > 0
    /\ IsQuery(ret)
    /\ b.queryType = InsertQuery
    /\ b.table = <<>>
    /\ Len(b.insertColumns) = 1
    /\ Len(b.insertValues) = 2
    /\ Len(b.whereClauses) = 1
    /\ b.limit < 0

\* kind Select, the one column '*', DollarNumber style, no predicates, no
\* joins, no alias, no order, limit and offset 0
FreshFields(r) ==
    /\ r.queryType = SelectQuery
    /\ r.columns = << <<"*">> >>
    /\ r.paramStyle = DollarNumber
    /\ r.whereClauses = <<>>
    /\ r.joinClauses = <<>>
    /\ r.tableAlias = <<>>
    /\ r.order = <<>>
    /\ r.limit = 0
    /\ r.offset = 0

\* C19: the builder starts with kind Select, the one column '*',
\* DollarNumber style, no predicates, no joins, empty alias and order, limit
\* and offset 0; a Build of a builder that holds these values and a safe
\* table name t returns 'select * from t' and no parameter.
C19_FreshBuilder ==
    /\ FreshFields(b) /\ b.table = <<>>
    /\ [][(/\ IsQuery(ret')
           /\ FreshFields(b')
           /\ isValidIdentifier(b'.table)) =>
              /\ Text(ret') = <<"s","e","l","e","c","t"," ","*"," ","f","r","o","m"," ">>
                                 \o b'.table
              /\ ret'.Params = <<>>]_vars

\* Build was called on a builder that holds the table t and nothing else
C19_Witness ==
    /\ IsQuery(ret)
    /\ FreshFields(b)
    /\ b.table = i_t
    /\ Text(ret) = <<"s","e","l","e","c","t"," ","*"," ","f","r","o","m"," ","t">>

\* safeIdentifier does not return the identifier as it is
Unsafe(identifier) ==
    \/ ~isValidIdentifier(identifier)
    \/ Contains(identifier, <<"\"">>)
    \/ Contains(identifier, <<"'">>)

\* text is a double quote, the strict stripper's result for identifier with
\* its double quotes doubled, a double quote; no space, semicolon or dash
StrictlyQuoted(identifier, text) ==
    /\ text = <<"\"">> \o DoubleQuotes(escapeSimpleIdentifier(identifier)) \o <<"\"">>
    /\ \A i \in 1..Len(text) : text[i] \notin {" ", ";", "-"}

\* C20: an identifier classified unsafe is rendered as a double quote, the
\* strict stripper's result for it (only letters, digits, underscore, dot
\* and asterisk kept, denylisted keywords removed) with double quotes
\* doubled, and a double quote; no space, semicolon or dash of the input is
\* left inside the quotes.
C20_StrictStripper ==
    (IsQuery(ret) /\ b.queryType = SelectQuery) =>
        /\ Unsafe(b.table) =>
              StrictlyQuoted(b.table, Rendered(ret, "from", "table")[1].s)
        /\ (b.tableAlias # <<>> /\ Unsafe(b.tableAlias)) =>
              StrictlyQuoted(b.tableAlias, Rendered(ret, "alias", "alias")[1].s)
        /\ \A i \in 1..Len(b.columns) :
              Unsafe(b.columns[i]) =>
                 StrictlyQuoted(b.columns[i], Rendered(ret, "select", "col")[i].s)
        /\ \A i \in 1..Len(b.whereClauses) :
              Unsafe(b.whereClauses[i].Column) =>
                 StrictlyQuoted(b.whereClauses[i].Column,
                                Rendered(ret, "where", "col")[i].s)
        /\ (b.order # <<>> /\ Unsafe(b.order)) =>
              StrictlyQuoted(b.order, Rendered(ret, "order", "expr")[1].s)
        /\ \A i \in 1..Len(b.joinClauses) :
              Unsafe(b.joinClauses[i].Table) =>
                 StrictlyQuoted(b.joinClauses[i].Table,
                                Rendered(ret, "join", "table")[i].s)

\* ---------------------------------------------------------------------
\* One free-text fragment at a time in each sanitized position of a select.

MaxIdents == 1

id_q  == <<"a", ".", "i">>
id_sp == <<"u", " ", "x">>
id_dq == <<"a", "\"", "b">>
id_sq == <<"a", "'", "b">>
id_kq == <<"a", "\"", "d", "r", "o", "p", "b">>
id_sc == <<"t", ";", "-", "-">>
id_qs == <<"x", "\"", ";", "y">>

Idents == {i_t, id_q, id_sp, id_dq, id_sq, id_kq, id_sc, id_qs}

op_ex == <<"=", "e", "x", "e", "c">>
op_al == <<">", " ", "A", "l", "t", "e", "r">>
c_par == <<"(", "a", ")", "=", "'", ";", "'">>
c_mix == <<"a", " ", "D", "r", "o", "p", ";", "b">>
c_nst == <<"d", "r", "d", "r", "o", "p", "o", "p">>
c_exe == <<"e", "x", "e", "c", "u", "t", "e">>
c_two == <<"d", "r", "o", "p", "e", "x", "e", "c">>

IdentOperators  == {op_eq, op_ex, op_al}
IdentConditions == {c_on, c_par, c_mix, c_nst, c_exe, c_two}

IdentFits(r) == Size(r) <= MaxIdents

NextIdent ==
    \/ \E table \in Idents \cup {<<>>} : Table(table) /\ IdentFits(b')
    \/ \E alias \in Idents : As(alias) /\ IdentFits(b')
    \/ \E column \in Idents : Select(<<column>>) /\ IdentFits(b')
    \/ \E column \in Idents : Where(column, op_eq, 1) /\ IdentFits(b')
    \/ \E operator \in IdentOperators : Where(i_id, operator, 1) /\ IdentFits(b')
    \/ \E order \in Idents : OrderBy(order) /\ IdentFits(b')
    \/ \E table \in Idents : LeftJoin(table, c_on) /\ IdentFits(b')
    \/ \E alias \in Idents : LeftJoinAs(i_a, alias, c_on) /\ IdentFits(b')
    \/ \E condition \in IdentConditions : LeftJoin(i_a, condition) /\ IdentFits(b')
    \/ Build /\ builds < MaxBuilds

SpecIdent == Init /\ [][NextIdent]_vars

\* the identifier positions of a select: each identifier r holds paired with
\* the text q renders in its place
IdentPairs(r, q) ==
    {<<r.table, Rendered(q, "from", "table")[1].s>>}
    \cup (IF r.tableAlias = <<>> THEN {}
          ELSE {<<r.tableAlias, Rendered(q, "alias", "alias")[1].s>>})
    \cup {<<r.columns[i], Rendered(q, "select", "col")[i].s>> : i \in 1..Len(r.columns)}
    \cup {<<r.whereClauses[i].Column, Rendered(q, "where", "col")[i].s>> :
             i \in 1..Len(r.whereClauses)}
    \cup (IF r.order = <<>> THEN {}
          ELSE {<<r.order, Rendered(q, "order", "expr")[1].s>>})
    \cup {<<r.joinClauses[i].Table, Rendered(q, "join", "table")[i].s>> :
             i \in 1..Len(r.joinClauses)}
    \cup {<<r.joinClauses[i].Alias, Rendered(q, "join", "alias")[AliasIndex(r, i)].s>> :
             i \in {j \in 1..Len(r.joinClauses) : r.joinClauses[j].Alias # <<>>}}

HasQuote(s) == Contains(s, <<"\"">>) \/ Contains(s, <<"'">>)

\* C21 as stated: every identifier the classifier accepts is rendered exactly
\* as written.
C21_AcceptedAsWrittenAsStated ==
    (IsQuery(ret) /\ b.queryType = SelectQuery) =>
        \A p \in IdentPairs(b, ret) : isValidIdentifier(p[1]) => p[2] = p[1]

\* C21: every identifier the classifier accepts (non-empty, none of the
\* denylisted marks and words in any letter case) that holds neither a double
\* nor a single quote is rendered exactly as written, dots and spaces
\* included; an accepted identifier that holds a quote is not.
C21_AcceptedAsWritten ==
    (IsQuery(ret) /\ b.queryType = SelectQuery) =>
        \A p \in IdentPairs(b, ret) :
            isValidIdentifier(p[1]) => (p[2] = p[1] <=> ~HasQuote(p[1]))

\* a qualified name was built as the order expression and came out as written
C21_Witness ==
    /\ IsQuery(ret)
    /\ b.order = id_q
    /\ <<id_q, id_q>> \in IdentPairs(b, ret)

\* an accepted name holding a double quote was built as the table
C21_WitnessQuoted ==
    /\ IsQuery(ret)
    /\ b.table = id_dq
    /\ isValidIdentifier(id_dq)
    /\ Text(ret) = s_select \o <<"*">> \o s_from \o <<"\"", "a", "\"", "\"", "b", "\"">>

\* the length of the run of double quotes of s that starts at i
RECURSIVE QuoteRun(_, _)
QuoteRun(s, i) ==
    IF i > Len(s) \/ s[i] # "\"" THEN 0 ELSE 1 + QuoteRun(s, i + 1)

\* every maximal run of double quotes of s has an even length
EvenQuoteRuns(s) ==
    \A i \in 1..Len(s) :
        (s[i] = "\"" /\ (i = 1 \/ s[i - 1] # "\"")) => QuoteRun(s, i) % 2 = 0

\* s with one double quote taken out of every two in a row
RECURSIVE Undoubled(_)
Undoubled(s) ==
    IF s = <<>> THEN <<>>
    ELSE IF Len(s) >= 2 /\ s[1] = "\"" /\ s[2] = "\""
         THEN <<"\"">> \o Undoubled(SubSeq(s, 3, Len(s)))
         ELSE <<s[1]>> \o Undoubled(Tail(s))

\* C22: whenever the safety routing quotes an identifier, the rendered text
\* starts and ends with a double quote, what is between them is the stripped
\* input with every double quote doubled, so only even-length runs of double
\* quotes are inside; an empty identifier renders as two double quotes.
C22_QuotedShape ==
    (IsQuery(ret) /\ b.queryType = SelectQuery) =>
        \A p \in IdentPairs(b, ret) :
            Unsafe(p[1]) =>
                LET inner == SubSeq(p[2], 2, Len(p[2]) - 1) IN
                /\ Len(p[2]) >= 2
                /\ p[2][1] = "\""
                /\ p[2][Len(p[2])] = "\""
                /\ EvenQuoteRuns(inner)
                /\ Undoubled(inner) = escapeIdentifier(p[1])
                /\ Len(inner) = Len(escapeIdentifier(p[1]))
                       + Cardinality({i \in 1..Len(escapeIdentifier(p[1])) :
                                         escapeIdentifier(p[1])[i] = "\""})
                /\ p[1] = <<>> => p[2] = <<"\"", "\"">>

\* a table name holding a double quote and a semicolon was built in quotes
\* with its double quote doubled
C22_Witness ==
    /\ IsQuery(ret)
    /\ b.table = id_qs
    /\ Rendered(ret, "from", "table")[1].s = <<"\"", "x", "\"", "\"", ";", "y", "\"">>

\* the empty table name was built as two double quotes
C22_WitnessEmpty ==
    /\ IsQuery(ret)
    /\ b.table = <<>>
    /\ Rendered(ret, "from", "table")[1].s = <<"\"", "\"">>

\* r with the rejected identifier id_kq wherever r holds the accepted id_dq
Twin(r) ==
    LET tw(id) == IF id = id_dq THEN id_kq ELSE id IN
    [r EXCEPT !.table = tw(@),
              !.tableAlias = tw(@),
              !.order = tw(@),
              !.columns = [i \in 1..Len(@) |-> tw(@[i])],
              !.whereClauses = [i \in 1..Len(@) |-> [@[i] EXCEPT !.Column = tw(@)]],
              !.joinClauses = [i \in 1..Len(@) |->
                                  [@[i] EXCEPT !.Table = tw(@), !.Alias = tw(@)]]]

FirstJoiner(r, j) == [r EXCEPT !.whereClauses[1].JoinType = j]

\* C23: the joiner recorded on the first predicate is never rendered: the
\* builder with Where as its first predicate call and the one with OrWhere
\* in its place, otherwise identical, build the same text and the same
\* parameters, and only the later predicates are preceded by a joiner.
C23_FirstJoinerDropped ==
    (IsQuery(ret) /\ Len(b.whereClauses) >= 1) =>
        /\ BuildQuery(FirstJoiner(b, s_and)) = ret
        /\ BuildQuery(FirstJoiner(b, s_or)) = ret
        /\ Len(Rendered(ret, "where", "joiner")) = Len(b.whereClauses) - 1
        /\ Clause(ret, "where")[2].k = "col"

\* OrWhere came first, two Where calls followed, and the text was built
C23_Witness ==
    /\ IsQuery(ret)
    /\ Len(b.whereClauses) = 3
    /\ b.whereClauses[1].JoinType = s_or
    /\ b.whereClauses[2].JoinType = s_and
    /\ FirstJoiner(b, s_and) # b
    /\ BuildQuery(FirstJoiner(b, s_and)) = ret

\* the operator and join-condition positions of a select: each fragment r
\* holds paired with the text q renders in its place
PermissivePairs(r, q) ==
    {<<r.whereClauses[i].Operator, Rendered(q, "where", "op")[i].s>> :
        i \in 1..Len(r.whereClauses)}
    \cup {<<r.joinClauses[i].Condition, Rendered(q, "join", "cond")[i].s>> :
             i \in 1..Len(r.joinClauses)}

\* the keywords that occur in s at position i, in any letter case
KeywordsAt(s, i) ==
    {k \in 1..Len(reKeywords) :
        HasPrefix(ToLower(SubSeq(s, i, Len(s))), reKeywords[k])}

\* from position i on, the characters of s that keep drops form keyword
\* occurrences laid end to end or apart, none overlapping another
RECURSIVE Tiled(_, _, _)
Tiled(s, keep, i) ==
    IF i > Len(s) THEN TRUE
    ELSE IF keep[i] THEN Tiled(s, keep, i + 1)
    ELSE \E k \in KeywordsAt(s, i) :
            /\ \A j \in i..(i + Len(reKeywords[k]) - 1) : ~keep[j]
            /\ Tiled(s, keep, i + Len(reKeywords[k]))

\* the characters of s that keep keeps, in their order
Kept(s, keep) ==
    LET at == SelectSeq([i \in 1..Len(s) |-> i], LAMBDA i : keep[i])
    IN  [j \in 1..Len(at) |-> s[at[j]]]

\* out is s with non-overlapping keyword occurrences taken out and nothing
\* else, no keyword occurrence of s being left whole
KeywordsRemoved(s, out) ==
    \E keep \in [1..Len(s) -> BOOLEAN] :
        /\ out = Kept(s, keep)
        /\ Tiled(s, keep, 1)
        /\ \A i \in 1..Len(s) : \A k \in KeywordsAt(s, i) :
              \E j \in i..(i + Len(reKeywords[k]) - 1) : ~keep[j]

C24_WitnessKept ==
    /\ IsQuery(ret)
    /\ Len(b.joinClauses) = 1
    /\ b.joinClauses[1].Condition = c_par
    /\ Rendered(ret, "join", "cond")[1].s = c_par

\* ---------------------------------------------------------------------
\* Every kind of statement over a builder that may hold every clause.

FrameMaps    == {i_nm :> 1}
FrameLimits  == {0, 10}

NextFrame ==
    \/ \E table \in Tables : Table(table)
    \/ \E alias \in Aliases : As(alias)
    \/ \E cols \in ColumnLists : Select(cols)
    \/ \E data \in FrameMaps : Insert(data)
    \/ \E data \in FrameMaps : Update(data)
    \/ Delete
    \/ \E a \in PredArgs : Where(a[1], a[2], a[3]) /\ Len(b'.whereClauses) <= MaxSelWhere
    \/ \E order \in Orders : OrderBy(order)
    \/ \E limit \in FrameLimits : Limit(limit)
    \/ \E offset \in Offsets : Offset(offset)
    \/ \E table \in JoinTables, alias \in JoinAliases, condition \in Conditions :
          LeftJoinAs(table, alias, condition) /\ Len(b'.joinClauses) <= MaxJoins
    \/ Build /\ builds < MaxBuilds

SpecFrame == Init /\ [][NextFrame]_vars

\* the clauses q holds fragments of
ClausesOf(q) == {q.SQL[i].c : i \in 1..Len(q.SQL)}

\* r with no predicates, joins, alias, order, limit or offset and with the
\* select columns of a new builder
InsertOnly(r) ==
    [r EXCEPT !.whereClauses = <<>>, !.joinClauses = <<>>, !.tableAlias = <<>>,
              !.columns = NewQueryBuilder.columns, !.order = <<>>,
              !.limit = 0, !.offset = 0]

NoSelectParts(r) ==
    [r EXCEPT !.joinClauses = <<>>, !.tableAlias = <<>>,
              !.columns = NewQueryBuilder.columns, !.offset = 0]

\* C30: for builders of kind Update and Delete the text and parameters Build
\* returns do not depend on the joins, table alias, select columns or
\* offset: the builder without them builds the same result, which holds no
\* JOIN fragment, no " as <alias>" and no " offset ", while the predicates,
\* the order expression and a positive limit are rendered.
C30_MutationIgnoresSelectParts ==
    (IsQuery(ret) /\ b.queryType \in {UpdateQuery, DeleteQuery}) =>
        /\ BuildQuery(NoSelectParts(b)) = ret
        /\ ClausesOf(ret) \cap {"join", "alias", "offset", "select", "from"} = {}
        /\ ~Contains(Text(ret), s_JOIN)
        /\ ~Contains(Text(ret), s_as)
        /\ ~Contains(Text(ret), s_offset)
        /\ "where" \in ClausesOf(ret) <=> b.whereClauses # <<>>
        /\ "order" \in ClausesOf(ret) <=> b.order # <<>>
        /\ "limit" \in ClausesOf(ret) <=> b.limit > 0

\* a delete was built from a builder that holds a join, an alias, select
\* columns and an offset next to a predicate, an order expression and a limit
C30_Witness ==
    /\ IsQuery(ret)
    /\ b.queryType = DeleteQuery
    /\ b.joinClauses # <<>> /\ b.tableAlias # <<>>
    /\ b.columns # NewQueryBuilder.columns /\ b.offset > 0
    /\ {"where", "order", "limit"} \subseteq ClausesOf(ret)

\* an update was built from such a builder
C30_WitnessUpdate ==
    /\ IsQuery(ret)
    /\ b.queryType = UpdateQuery
    /\ b.updateColumns # <<>>
    /\ b.joinClauses # <<>> /\ b.tableAlias # <<>>
    /\ b.columns # NewQueryBuilder.columns /\ b.offset > 0
    /\ {"where", "order", "limit"} \subseteq ClausesOf(ret)

\* C28: the select column list is never empty: a new builder holds the one
\* column "*", Select without arguments keeps the columns it finds, no other
\* call writes them, and every select that is built renders at least one
\* column.
C28_ColumnsNeverEmpty ==
    /\ Len(b.columns) >= 1
    /\ [][/\ Len(b'.columns) >= 1
          /\ b'.columns # b.columns =>
                \E cols \in ColumnLists : Len(cols) > 0 /\ Select(cols)
          /\ (IsQuery(ret') /\ b'.queryType = SelectQuery) =>
                /\ Len(Rendered(ret', "select", "col")) = Len(b'.columns)
                /\ Len(Rendered(ret', "select", "col")) >= 1]_vars

\* a select was built with the two columns an earlier Select had declared,
\* after the kind had been switched to update and back
C28_Witness ==
    /\ IsQuery(ret)
    /\ b.queryType = SelectQuery
    /\ b.updateColumns # <<>>
    /\ b.columns = <<i_id, i_nm>>
    /\ Len(Rendered(ret, "select", "col")) = 2

\* C29: the SET columns and the SET values have the same length in every
\* state; Update(data) replaces every pair declared before, the ones Set
\* added included, by one pair per key of data, the value of each key next
\* to it; Set appends exactly one pair after the pairs it finds and keeps a
\* column that is already there.
C29_SetPairs ==
    /\ Len(b.updateColumns) = Len(b.updateValues)
    /\ [][/\ Len(b'.updateColumns) = Len(b'.updateValues)
          /\ b'.queryType = UpdateQuery =>
                /\ \A data \in Maps :
                      Update(data) =>
                         /\ Len(b'.updateColumns) = Cardinality(DOMAIN data)
                         /\ {b'.updateColumns[i] : i \in 1..Len(b'.updateColumns)}
                               = DOMAIN data
                         /\ \A i \in 1..Len(b'.updateColumns) :
                               b'.updateValues[i] = data[b'.updateColumns[i]]
                /\ \A a \in PairArgs :
                      Set(a[1], a[2]) =>
                         /\ b'.updateColumns = Append(b.updateColumns, a[1])
                         /\ b'.updateValues = Append(b.updateValues, a[2])
          /\ (b'.updateColumns # b.updateColumns \/ b'.updateValues # b.updateValues) =>
                \/ \E a \in PairArgs : Set(a[1], a[2])
                \/ \E data \in Maps : Update(data)]_vars

\* Set was called twice with the same column: both pairs are kept, and the
\* update built from them binds both values
C29_Witness ==
    /\ IsQuery(ret)
    /\ b.updateColumns = <<i_nm, i_nm>>
    /\ b.updateValues = <<1, 1>>
    /\ ret.Params = <<1, 1>>

\* ---------------------------------------------------------------------
\* Two callers declare on the same builder at once.  A call that appends,
\* b.x = append(b.x, v), is a read of the slice b.x into the caller and then
\* a write of the appended slice back to b.x; the steps of the two callers
\* interleave freely unless the callers serialize, in which case a caller
\* starts its call only while the other one is not inside a call.

Callers == {1, 2}

\* append(s, v), computed from the slice the caller read
appendedInPlace(s, v) == IF s = <<>> THEN <<v>> ELSE [s EXCEPT ![Len(s)] = v]

appended(s, v) == Append(s, v)

Call(op, args, serialized) ==
    [op |-> op, args |-> args, pc |-> "start", local |-> <<>>,
     serialized |-> serialized]

RaceCalls ==
    {<<Call("Where", x, s), Call("Where", y, s)>> :
        x \in PredArgs, y \in PredArgs, s \in BOOLEAN}
    \cup {<<Call("Set", x, s), Call("Set", y, s)>> :
             x \in PairArgs, y \in PairArgs, s \in BOOLEAN}

InitRace ==
    b = NewQueryBuilder /\ ret = Self /\ builds = 0 /\ calls \in RaceCalls

\* caller i may enter its call
MayStart(i) ==
    calls[i].serialized =>
        \A j \in Callers \ {i} : calls[j].pc \in {"start", "done"}

At(i, op, pc) == calls[i].op = op /\ calls[i].pc = pc

Goto(i, pc, local) == calls' = [calls EXCEPT ![i].pc = pc, ![i].local = local]

\* Where: b.whereClauses is read
WhereRead(i) ==
    /\ At(i, "Where", "start") /\ MayStart(i)
    /\ Goto(i, "write", b.whereClauses)
    /\ UNCHANGED <<b, ret, builds>>

\* Where: the appended slice is written back and the call returns
WhereWrite(i) ==
    /\ At(i, "Where", "write")
    /\ b' = [b EXCEPT !.whereClauses =
                appended(calls[i].local,
                         WhereClause(calls[i].args[1], calls[i].args[2],
                                     calls[i].args[3], s_and))]
    /\ Goto(i, "done", <<>>)
    /\ ret' = Self
    /\ builds' = 0

\* Set: the kind is written and b.updateColumns is read
SetReadColumns(i) ==
    /\ At(i, "Set", "start") /\ MayStart(i)
    /\ b' = [b EXCEPT !.queryType = UpdateQuery]
    /\ Goto(i, "writeColumns", b.updateColumns)
    /\ UNCHANGED <<ret, builds>>

\* Set: the appended columns are written back
SetWriteColumns(i) ==
    /\ At(i, "Set", "writeColumns")
    /\ b' = [b EXCEPT !.updateColumns = appended(calls[i].local, calls[i].args[1])]
    /\ Goto(i, "readValues", <<>>)
    /\ UNCHANGED <<ret, builds>>

\* Set: b.updateValues is read
SetReadValues(i) ==
    /\ At(i, "Set", "readValues")
    /\ Goto(i, "writeValues", b.updateValues)
    /\ UNCHANGED <<b, ret, builds>>

\* Set: the appended values are written back and the call returns
SetWriteValues(i) ==
    /\ At(i, "Set", "writeValues")
    /\ b' = [b EXCEPT !.updateValues = appended(calls[i].local, calls[i].args[2])]
    /\ Goto(i, "done", <<>>)
    /\ ret' = Self
    /\ builds' = 0

\* every caller's call has returned
Returned == \A i \in Callers : calls[i].pc = "done"

NextRace ==
    \/ \E i \in Callers : WhereRead(i)
    \/ \E i \in Callers : WhereWrite(i)
    \/ \E i \in Callers : SetReadColumns(i)
    \/ \E i \in Callers : SetWriteColumns(i)
    \/ \E i \in Callers : SetReadValues(i)
    \/ \E i \in Callers : SetWriteValues(i)
    \/ Returned /\ Build /\ builds < MaxBuilds

SpecRace == InitRace /\ [][NextRace]_vars

\* the predicates the callers declare, caller 1 first
DeclaredPredicates ==
    [i \in 1..2 |-> WhereClause(calls[i].args[1], calls[i].args[2],
                                calls[i].args[3], s_and)]

Swapped(s) == <<s[2], s[1]>>

\* no entry is lost and the SET columns and values pair up
NothingLost ==
    /\ calls[1].op = "Where" =>
          b.whereClauses \in {DeclaredPredicates, Swapped(DeclaredPredicates)}
    /\ calls[1].op = "Set" =>
          \/ /\ b.updateColumns = <<calls[1].args[1], calls[2].args[1]>>
             /\ b.updateValues = <<calls[1].args[2], calls[2].args[2]>>
          \/ /\ b.updateColumns = <<calls[2].args[1], calls[1].args[1]>>
             /\ b.updateValues = <<calls[2].args[2], calls[1].args[2]>>

\* C27: when two Where calls or two Set calls on the same builder are
\* serialized, in either order, then once both have returned no entry is
\* lost, the SET columns and values have the same length, and a following
\* Build writes as many placeholders as it returns parameters.  (That the
\* same calls, run at once, do reach a state with a lost entry and a Build
\* whose placeholders and parameters differ in number is C27_Witness and
\* C27_WitnessLost.)
C27_SerializedSafe ==
    (calls # <<>> /\ calls[1].serialized /\ Returned) =>
        /\ NothingLost
        /\ IsQuery(ret) => Len(Placeholders(ret)) = Len(ret.Params)

\* two Set calls ran at once: a column was lost, no value was, and the
\* update that was built has one placeholder for two parameters
C27_Witness ==
    /\ calls # <<>> /\ ~calls[1].serialized /\ Returned
    /\ calls[1].op = "Set"
    /\ Len(b.updateColumns) = 1
    /\ Len(b.updateValues) = 2
    /\ IsQuery(ret)
    /\ Len(Placeholders(ret)) = 1
    /\ Len(ret.Params) = 2

\* two Where calls ran at once and one of the two predicates was lost
C27_WitnessLost ==
    /\ calls # <<>> /\ ~calls[1].serialized /\ Returned
    /\ calls[1].op = "Where"
    /\ calls[1].args # calls[2].args
    /\ Len(b.whereClauses) = 1
    /\ IsQuery(ret)

\* two serialized Set calls returned, the second caller's pair first
C27_WitnessSerialized ==
    /\ calls # <<>> /\ calls[1].serialized /\ Returned
    /\ calls[1].op = "Set"
    /\ calls[1].args # calls[2].args
    /\ b.updateColumns = <<calls[2].args[1], calls[1].args[1]>>
    /\ IsQuery(ret)
    /\ Len(ret.Params) = 2

====
